---------------------------- MODULE Spec2Model ----------------------------
(***************************************************************************)
(* The expression argument Materializer of                                 *)
(* source/Expression/Materializer.cpp: the layout engine (AddStructMember),*)
(* the five entity kinds, and the Materialize / Dematerialize / Wipe       *)
(* protocol between a Materializer and its Dematerializer handles.         *)
(*                                                                         *)
(* Every driver call is one action.  The collaborators the file calls      *)
(* (IRMemoryMap, value objects, the register context, the persistent       *)
(* store) are the environment: each fallible call of theirs can fail, and  *)
(* an action's inputs name the one call that fails in the entity loop      *)
(* (failAt, failMode) and the entities whose Free fails during Wipe.       *)
(***************************************************************************)
EXTENDS Integers, Sequences, FiniteSets, TLC

(* ------------------------------ bounds -------------------------------- *)

MaxEntities == 2      \* entities one Materializer holds
MaxAddr     == 2      \* regions the memory map can hand out: 1..MaxAddr
MaxHandles  == 2      \* Dematerializer objects alive at once
MaxVal      == 1      \* payload values are 0..MaxVal
MaxMembers  == 3      \* entities laid out when only the layout is exercised

(* ----------------------------- constants ------------------------------ *)

\* lldb's LLDB_INVALID_ADDRESS is UINT64_MAX: larger than every address.
LLDB_INVALID_ADDRESS == 255
\* the size and alignment every pointer-sized slot is hard-coded to
PointerSize == 8
\* the m_struct_alignment a fresh Materializer starts with
InitialStructAlignment == 8

NULL_SP     == -1      \* an empty shared pointer (m_live_sp)
NoHandle    == 0       \* an empty / expired m_dematerializer_wp, a null return
NoEntity    == 0       \* m_result_entity == NULL

Heap        == 1..MaxAddr
Values      == 0..MaxVal
\* the argument struct in the inferior (caller-allocated)
StructAddress == 100
\* where an addressable variable, or the referent of a reference, lives
VariableAddress == 20
\* an address inside the stack frame the expression ran in
StackAddress == 10
\* a symbol's load address and its file address
SymbolLoadAddress == 30
SymbolFileAddress == 31
\* what a slot of the caller's struct holds before anything is written
Uninitialized == 7

Kinds == {"persistent", "variable", "result", "symbol", "register"}

\* ClangExpressionVariable flags the file reads and writes
EVNeedsAllocation    == "EVNeedsAllocation"
EVIsProgramReference == "EVIsProgramReference"
EVIsLLDBAllocated    == "EVIsLLDBAllocated"
EVKeepInTarget       == "EVKeepInTarget"
EVNeedsFreezeDry     == "EVNeedsFreezeDry"

\* the flag sets persistent variables are added with
PersistentPresets ==
    { {EVIsLLDBAllocated, EVNeedsAllocation},
      {EVIsLLDBAllocated, EVNeedsAllocation, EVKeepInTarget},
      {EVIsProgramReference},
      {EVIsLLDBAllocated},
      {} }

\* what a variable is: a reference, a variable with an address, or one
\* without (register-resident), which Materialize spills to a temporary
VariableLocations == {"reference", "addressable", "spilled"}

\* the value a variable or register holds when it is added
InitialValues == {MaxVal}

\* the register byte sizes AddRegister is called with: none, al, ax, eax,
\* rax, st0, xmm0
RegisterByteSizes == {0, 1, 2, 4, 8, 10, 16}

\* GetAddressByteSize() of a 64-bit target: the width of a pointer write
AddressByteSize == 8

\* the one fallible collaborator call that fails in an entity's
\* Materialize / Dematerialize ("none": every call succeeds)
FailModes == {"none", "valobj", "size", "malloc", "write", "ptrwrite",
              "read", "readmem", "setdata", "free", "target", "create",
              "regread", "regdata", "regwrite"}

\* what a dereference of a null or dangling pointer does: the process dies,
\* or the read yields garbage and execution goes on
UBOutcomes == {"crash", "continue"}

\* the (frame_top, frame_bottom) pairs Dematerialize is called with
FrameRanges == { << LLDB_INVALID_ADDRESS, LLDB_INVALID_ADDRESS >>, << 12, 8 >> }

VARIABLES
    m_entities,          \* Materializer::m_entities, in insertion order
    m_current_offset,    \* Materializer::m_current_offset
    m_struct_alignment,  \* Materializer::m_struct_alignment
    m_result_entity,     \* Materializer::m_result_entity (index, or NoEntity)
    m_dematerializer_wp, \* Materializer::m_dematerializer_wp (handle, or NoHandle)
    materializerAlive,   \* the Materializer has not been destroyed
    handles,             \* the Dematerializers the caller holds, oldest first
    region,              \* memory map: state of each region of the Heap
    owner,               \* memory map: the entity that allocated a region
    mem,                 \* memory map: contents of each region
    frameAlive,          \* the stack frame still exists
    mapScope,            \* map.GetBestExecutionContextScope() is non-null
    crashed,             \* the debugger process died (null / dangling dereference)
    lastOp               \* what the last driver call did and returned

vars == << m_entities, m_current_offset, m_struct_alignment, m_result_entity,
           m_dematerializer_wp, materializerAlive, handles, region, owner, mem,
           frameAlive, mapScope, crashed, lastOp >>

\* everything but the record of the last call
progVars == << m_entities, m_current_offset, m_struct_alignment,
               m_result_entity, m_dematerializer_wp, materializerAlive, handles,
               region, owner, mem, frameAlive, mapScope, crashed >>

(* ------------------------------ helpers ------------------------------- *)

Min(S) == CHOOSE x \in S : \A y \in S : x <= y

SeqToSet(s) == { s[i] : i \in 1..Len(s) }

\* who allocated a region: entity index, its kind, and its keep_in_memory
NoOwner == [i |-> 0, kind |-> "none", keep |-> FALSE]

NoResult == [made |-> FALSE, value |-> 0, flags |-> {}, live |-> NULL_SP]

\* a Dematerializer as its default constructor leaves it
NullHandle == [ alive |-> FALSE, m_materializer |-> FALSE, m_map |-> FALSE,
                m_process_address |-> LLDB_INVALID_ADDRESS ]

\* the record of a call: which call, on which handle, what it returned, and
\* what it did to the collaborators (spurious: an input named a failure
\* that the call never met; such inputs are not taken; cur0: m_current_offset
\* when an Add* was entered; bytes: the (entity, struct offset) pairs
\* written; refreed: the addresses Free was called on again; failAt, mode:
\* the collaborator call that was to fail; pfree: the (entity, address)
\* pairs of the Frees persistent entities issued; foreign: those of them at
\* an address that is not an allocated region the entity allocated; top, bottom:
\* the frame range Dematerialize was called with; rfree: the (entity,
\* address) pairs of the Frees the result's Dematerialize issued)
BlankOp ==
    [ op |-> "none", h |-> NoHandle, wasValid |-> FALSE, err |-> "ok",
      ret |-> NoHandle, already |-> FALSE, priorValid |-> FALSE,
      noScope |-> FALSE, usedNull |-> FALSE,
      visited |-> << >>, entErr |-> << >>, mallocs |-> << >>, frees |-> << >>,
      wrote |-> {}, slotw |-> {}, created |-> 0, result |-> NoResult,
      raised |-> "ok", tempsBefore |-> {}, offset |-> 0, spurious |-> FALSE,
      cur0 |-> 0, bytes |-> {}, refreed |-> {},
      failAt |-> 0, mode |-> "none", pfree |-> {}, foreign |-> {},
      rfree |-> {},
      top |-> LLDB_INVALID_ADDRESS, bottom |-> LLDB_INVALID_ADDRESS ]

(* ---------------------------- memory map ------------------------------ *)
(* A region is "free", "live" (allocated), or "unfreed" (allocated, and a  *)
(* Free of it was issued and reported failure).  The world w threaded      *)
(* through a call holds the entities, the memory map and the call's        *)
(* record w.op; w.op.err is the Error the call passes along.               *)

World(ents, op) ==
    [ ents |-> ents, region |-> region, owner |-> owner, mem |-> mem,
      crash |-> FALSE, op |-> op ]

\* an entity reporting an error through its Error &err parameter
Fail(w, msg) == [w EXCEPT !.op.err = msg, !.op.raised = msg]

Crash(w) == [w EXCEPT !.crash = TRUE, !.op.usedNull = TRUE]

FreeRegions(w) == { a \in Heap : w.region[a] = "free" }

\* IRMemoryMap::Malloc succeeding with region a, for entity i
DoMalloc(w, i, a) ==
    [w EXCEPT !.region[a] = "live",
              !.owner[a] = [i |-> i, kind |-> w.ents[i].kind,
                            keep |-> w.ents[i].m_keep_in_memory],
              !.op.mallocs = Append(@, a)]

\* IRMemoryMap::Free reports failure when told to, and always for an
\* address that is not allocated
FreeFails(w, a, failIn) == failIn \/ a \notin Heap \/ w.region[a] = "free"

\* IRMemoryMap::Free(a) (the contents of a freed region are gone)
DoFree(w, a, failIn) ==
    LET w1 == [w EXCEPT !.op.frees = Append(@, a),
                        !.op.refreed = IF a \in Heap /\ w.region[a] # "live"
                                       THEN @ \cup {a} ELSE @]
    IN  IF a \notin Heap \/ w.region[a] = "free" THEN w1
        ELSE IF failIn THEN [w1 EXCEPT !.region[a] = "unfreed"]
        ELSE [w1 EXCEPT !.region[a] = "free", !.owner[a] = NoOwner,
                        !.mem[a] = 0]

\* IRMemoryMap::ReadMemory / GetMemoryData at address a (program memory
\* outside the map's regions reads as 0)
ReadMem(w, a) == IF a \in Heap THEN w.mem[a] ELSE 0

\* IRMemoryMap::WriteMemory at address a
WriteMem(w, a, v) == IF a \in Heap THEN [w EXCEPT !.mem[a] = v] ELSE w

\* a register written as if it were a pointer
WriteWidthPointer(e) == AddressByteSize

\* the number of bytes an entity's Materialize writes: the register's data
\* (register_data.GetByteSize(), tested equal to byte_size), or a pointer
WriteWidth(e) == IF e.kind = "register" THEN e.byte_size ELSE AddressByteSize

\* the offsets in the argument struct the write covers, from
\* process_address + m_offset on
WrittenBytes(e) == e.m_offset .. (e.m_offset + WriteWidth(e) - 1)

\* a write into entity i's slot of the argument struct
\* (process_address + m_offset)
WriteSlot(w, i, v) ==
    [w EXCEPT !.ents[i].slot = v, !.op.slotw = @ \cup {i},
              !.op.bytes = @ \cup { << i, k >> : k \in WrittenBytes(w.ents[i]) }]

(* --------------------------- layout engine ---------------------------- *)

\* cur % alignment as the build computes it.  A zero alignment divides by
\* zero: the process traps (crash), or the quotient comes back 0 and the
\* remainder is cur itself (the outcome of a divide that does not trap).
Remainder(cur, alignment) == IF alignment = 0 THEN cur ELSE cur % alignment

\* an AddStructMember that does not round m_current_offset up
AddStructMemberUnpadded(cur, sa, size, alignment) ==
    [ ret |-> cur, m_current_offset |-> cur + size,
      m_struct_alignment |-> IF cur = 0 THEN alignment ELSE sa ]

\* Materializer::AddStructMember: the offset returned and the new
\* m_current_offset and m_struct_alignment
AddStructMember(cur, sa, size, alignment) ==
    LET sa1  == IF cur = 0 THEN alignment ELSE sa
        cur1 == IF Remainder(cur, alignment) # 0
                THEN cur + (alignment - Remainder(cur, alignment)) ELSE cur
    IN  [ ret |-> cur1, m_current_offset |-> cur1 + size,
          m_struct_alignment |-> sa1 ]

\* Entity::Entity plus the fields of the derived classes, as constructed
NewEntity(kind, size, alignment) ==
    [ kind |-> kind, m_size |-> size, m_alignment |-> alignment, m_offset |-> 0,
      m_is_reference |-> FALSE, addressable |-> FALSE,
      m_temporary_allocation |-> LLDB_INVALID_ADDRESS,
      m_is_program_reference |-> FALSE, m_keep_in_memory |-> FALSE,
      m_flags |-> {}, m_live_sp |-> NULL_SP, byte_size |-> 0,
      value |-> 0, slot |-> Uninitialized ]

EntityPersistentVariable(flags) ==
    [NewEntity("persistent", PointerSize, PointerSize) EXCEPT !.m_flags = flags]

EntityVariable(isRef, addressable, v) ==
    [NewEntity("variable", PointerSize, PointerSize) EXCEPT
        !.m_is_reference = isRef, !.addressable = addressable, !.value = v]

EntityResultVariable(isProgRef, keep) ==
    [NewEntity("result", PointerSize, PointerSize) EXCEPT
        !.m_is_program_reference = isProgRef, !.m_keep_in_memory = keep]

EntitySymbol(hasLoadAddress) ==
    [NewEntity("symbol", PointerSize, PointerSize) EXCEPT
        !.addressable = hasLoadAddress]

EntityRegister(byte_size, v) ==
    [NewEntity("register", byte_size, byte_size) EXCEPT
        !.byte_size = byte_size, !.value = v]

(* ------------------------ EntityPersistentVariable -------------------- *)
(* inp is the call's input: inp.mode the collaborator call that fails,     *)
(* inp.ub the outcome of an undefined dereference, inp.frame whether       *)
(* frame_sp is non-null, inp.scope whether the map has an execution scope, *)
(* inp.top / inp.bottom the expression's frame range.                      *)

\* EntityPersistentVariable::Materialize, the part after MakeAllocation
PersistentWriteLocation(w, i, inp) ==
    LET e == w.ents[i]
    IN  IF \/ (EVIsProgramReference \in e.m_flags /\ e.m_live_sp # NULL_SP)
           \/ EVIsLLDBAllocated \in e.m_flags
        THEN IF e.m_live_sp = NULL_SP
             THEN \* m_live_sp->GetValue() through an empty pointer
                  IF inp.ub = "crash" THEN Crash(w)
                  ELSE IF inp.mode = "ptrwrite"
                       THEN Fail([w EXCEPT !.op.usedNull = TRUE], "WriteFailed")
                       ELSE WriteSlot([w EXCEPT !.op.usedNull = TRUE], i,
                                      Uninitialized)
             ELSE IF inp.mode = "ptrwrite" THEN Fail(w, "WriteFailed")
             ELSE WriteSlot(w, i, e.m_live_sp)
        ELSE Fail(w, "NotMaterialized")

\* a MakeAllocation that leaves NeedsAllocation set on a KeepInTarget record
PersistentMaterializeKeepsFlag(w, i, inp) ==
    LET e == w.ents[i]
    IN  IF EVNeedsAllocation \in e.m_flags
        THEN IF inp.mode = "malloc" \/ FreeRegions(w) = {}
             THEN Fail(w, "AllocationFailed")
             ELSE LET a  == Min(FreeRegions(w))
                      w1 == [DoMalloc(w, i, a) EXCEPT !.ents[i].m_live_sp = a]
                  IN  IF inp.mode = "write" THEN Fail(w1, "WriteFailed")
                      ELSE PersistentWriteLocation(WriteMem(w1, a, e.value),
                                                   i, inp)
        ELSE PersistentWriteLocation(w, i, inp)

\* EntityPersistentVariable::MakeAllocation followed by the rest of
\* EntityPersistentVariable::Materialize
PersistentMaterialize(w, i, inp) ==
    LET e == w.ents[i]
    IN  IF EVNeedsAllocation \in e.m_flags
        THEN IF inp.mode = "malloc" \/ FreeRegions(w) = {}
             THEN Fail(w, "AllocationFailed")
             ELSE LET a  == Min(FreeRegions(w))
                      w1 == [DoMalloc(w, i, a) EXCEPT
                               !.ents[i].m_live_sp = a,
                               !.ents[i].m_flags =
                                   IF EVKeepInTarget \in e.m_flags
                                   THEN @ \ {EVNeedsAllocation} ELSE @]
                  IN  IF inp.mode = "write" THEN Fail(w1, "WriteFailed")
                      ELSE PersistentWriteLocation(WriteMem(w1, a, e.value),
                                                   i, inp)
        ELSE PersistentWriteLocation(w, i, inp)

\* EntityPersistentVariable::DestroyAllocation, when the flags ask for it
PersistentDestroyAllocation(w, i, inp) ==
    LET e == w.ents[i]
        a == e.m_live_sp
        own == a \in Heap /\ w.region[a] # "free" /\ w.owner[a].i = i
    IN  IF EVNeedsAllocation \in e.m_flags /\ EVKeepInTarget \notin e.m_flags
        THEN LET bad == FreeFails(w, a, inp.mode = "free")
                 w1  == [DoFree(w, a, inp.mode = "free") EXCEPT
                           !.op.pfree = @ \cup {<< i, a >>},
                           !.op.foreign = IF own THEN @ ELSE @ \cup {a}]
             IN  IF bad THEN Fail(w1, "DeallocationFailed") ELSE w1
        ELSE w

\* EntityPersistentVariable::Dematerialize from the dereference of
\* m_live_sp on: the checks, the freeze-dry copy and the release
PersistentCopyBack(w, i, inp) ==
    LET e == w.ents[i]
    IN  IF e.m_live_sp = NULL_SP
        THEN \* m_live_sp is dereferenced before it is tested
             IF inp.ub = "crash" THEN Crash(w)
             ELSE Fail([w EXCEPT !.op.usedNull = TRUE], "NoMemoryArea")
        ELSE IF EVNeedsFreezeDry \in e.m_flags \/ EVKeepInTarget \in e.m_flags
             THEN IF inp.mode = "readmem" THEN Fail(w, "ReadFailed")
                  ELSE PersistentDestroyAllocation(
                         [w EXCEPT !.ents[i].value = ReadMem(w, e.m_live_sp),
                                   !.ents[i].m_flags = @ \ {EVNeedsFreezeDry},
                                   !.op.wrote = @ \cup {i}], i, inp)
             ELSE PersistentDestroyAllocation(w, i, inp)

\* a Dematerialize that leaves IsProgramReference set on a reference into
\* the expression's frame
PersistentDematerializeKeepsReference(w, i, inp) ==
    LET e == w.ents[i]
    IN  IF EVIsProgramReference \in e.m_flags /\ e.m_live_sp = NULL_SP
        THEN IF inp.mode = "read" THEN Fail(w, "ReadFailed")
             ELSE PersistentCopyBack(
                    [w EXCEPT !.ents[i].m_live_sp = e.slot,
                              !.ents[i].m_flags =
                                 @ \cup {EVIsLLDBAllocated, EVNeedsAllocation,
                                         EVNeedsFreezeDry}], i, inp)
        ELSE IF EVIsLLDBAllocated \in e.m_flags
                \/ EVIsProgramReference \in e.m_flags
        THEN PersistentCopyBack(w, i, inp)
        ELSE Fail(w, "NotDematerialized")

\* EntityPersistentVariable::Dematerialize
PersistentDematerialize(w, i, inp) ==
    LET e == w.ents[i]
    IN  IF EVIsLLDBAllocated \in e.m_flags \/ EVIsProgramReference \in e.m_flags
        THEN IF EVIsProgramReference \in e.m_flags /\ e.m_live_sp = NULL_SP
             THEN IF inp.mode = "read" THEN Fail(w, "ReadFailed")
                  ELSE LET location == e.slot
                           inFrame  == /\ inp.top # LLDB_INVALID_ADDRESS
                                       /\ inp.bottom # LLDB_INVALID_ADDRESS
                                       /\ location >= inp.bottom
                                       /\ location <= inp.top
                           w1 == [w EXCEPT
                                    !.ents[i].m_live_sp = location,
                                    !.ents[i].m_flags =
                                       IF inFrame
                                       THEN (@ \cup {EVIsLLDBAllocated,
                                                      EVNeedsAllocation,
                                                      EVNeedsFreezeDry})
                                            \ {EVIsProgramReference}
                                       ELSE @]
                       IN  PersistentCopyBack(w1, i, inp)
             ELSE PersistentCopyBack(w, i, inp)
        ELSE Fail(w, "NotDematerialized")

(* ----------------------------- EntityVariable ------------------------- *)

\* a Materialize that spills a variable to a temporary although address-of
\* succeeds
VariableMaterializeSpills(w, i, inp) ==
    LET e == w.ents[i]
    IN  IF inp.mode = "valobj" THEN Fail(w, "NoValueObject")
        ELSE IF e.m_is_reference
        THEN IF inp.mode = "ptrwrite" THEN Fail(w, "WriteFailed")
             ELSE WriteSlot(w, i, VariableAddress)
        ELSE IF e.m_temporary_allocation # LLDB_INVALID_ADDRESS
        THEN Fail(w, "DoubleAllocation")
        ELSE IF inp.mode = "size" THEN Fail(w, "SizeMismatch")
        ELSE IF inp.mode = "malloc" \/ FreeRegions(w) = {}
        THEN Fail(w, "AllocationFailed")
        ELSE LET a  == Min(FreeRegions(w))
                 w1 == [DoMalloc(w, i, a) EXCEPT
                          !.ents[i].m_temporary_allocation = a]
             IN  IF inp.mode = "write" THEN Fail(w1, "WriteFailed")
                 ELSE IF inp.mode = "ptrwrite"
                 THEN Fail(WriteMem(w1, a, e.value), "WriteFailed")
                 ELSE WriteSlot(WriteMem(w1, a, e.value), i, a)

\* a Materialize that tests the data's size after the Malloc
VariableMaterializeLateTest(w, i, inp) ==
    LET e == w.ents[i]
    IN  IF inp.mode = "valobj" THEN Fail(w, "NoValueObject")
        ELSE IF e.m_is_reference \/ e.addressable
        THEN IF inp.mode = "ptrwrite" THEN Fail(w, "WriteFailed")
             ELSE WriteSlot(w, i, VariableAddress)
        ELSE IF e.m_temporary_allocation # LLDB_INVALID_ADDRESS
        THEN Fail(w, "DoubleAllocation")
        ELSE IF inp.mode = "malloc" \/ FreeRegions(w) = {}
        THEN Fail(w, "AllocationFailed")
        ELSE LET a  == Min(FreeRegions(w))
                 w1 == [DoMalloc(w, i, a) EXCEPT
                          !.ents[i].m_temporary_allocation = a]
             IN  IF inp.mode = "size" THEN Fail(w1, "SizeMismatch")
                 ELSE IF inp.mode = "write" THEN Fail(w1, "WriteFailed")
                 ELSE IF inp.mode = "ptrwrite"
                 THEN Fail(WriteMem(w1, a, e.value), "WriteFailed")
                 ELSE WriteSlot(WriteMem(w1, a, e.value), i, a)

\* EntityVariable::Materialize
VariableMaterialize(w, i, inp) ==
    LET e == w.ents[i]
    IN  IF inp.mode = "valobj" THEN Fail(w, "NoValueObject")
        ELSE IF e.m_is_reference \/ e.addressable
        THEN \* the referent's address, or the address AddressOf yields
             IF inp.mode = "ptrwrite" THEN Fail(w, "WriteFailed")
             ELSE WriteSlot(w, i, VariableAddress)
        ELSE IF e.m_temporary_allocation # LLDB_INVALID_ADDRESS
        THEN Fail(w, "DoubleAllocation")
        ELSE IF inp.mode = "size" THEN Fail(w, "SizeMismatch")
        ELSE IF inp.mode = "malloc" \/ FreeRegions(w) = {}
        THEN \* m_temporary_allocation takes what the failed Malloc returned
             Fail(w, "AllocationFailed")
        ELSE LET a  == Min(FreeRegions(w))
                 w1 == [DoMalloc(w, i, a) EXCEPT
                          !.ents[i].m_temporary_allocation = a]
             IN  IF inp.mode = "write" THEN Fail(w1, "WriteFailed")
                 ELSE IF inp.mode = "ptrwrite"
                 THEN Fail(WriteMem(w1, a, e.value), "WriteFailed")
                 ELSE WriteSlot(WriteMem(w1, a, e.value), i, a)

\* a Dematerialize that frees the temporary without copying it back
VariableDematerializeNoRead(w, i, inp) ==
    LET t == w.ents[i].m_temporary_allocation
    IN  IF t = LLDB_INVALID_ADDRESS THEN w
        ELSE [DoFree(w, t, FALSE) EXCEPT
                 !.ents[i].m_temporary_allocation = LLDB_INVALID_ADDRESS]

\* EntityVariable::Dematerialize
VariableDematerialize(w, i, inp) ==
    LET e == w.ents[i]
        t == e.m_temporary_allocation
    IN  IF t = LLDB_INVALID_ADDRESS THEN w
        ELSE IF inp.mode = "valobj" THEN Fail(w, "NoValueObject")
        ELSE IF inp.mode = "read" THEN Fail(w, "ReadFailed")
        ELSE IF inp.mode = "setdata" THEN Fail(w, "WriteFailed")
        ELSE LET w1  == [w EXCEPT !.ents[i].value = ReadMem(w, t),
                                  !.op.wrote = @ \cup {i}]
                 bad == FreeFails(w1, t, inp.mode = "free")
                 w2  == DoFree(w1, t, inp.mode = "free")
             IN  IF bad THEN Fail(w2, "DeallocationFailed")
                 ELSE [w2 EXCEPT !.ents[i].m_temporary_allocation =
                                     LLDB_INVALID_ADDRESS]

\* a Wipe that forgets the temporary without freeing it
VariableWipeNoFree(w, i, freeFails) ==
    [w EXCEPT !.ents[i].m_temporary_allocation = LLDB_INVALID_ADDRESS]

\* a Wipe that copies the temporary back into the variable before freeing
VariableWipeCopyBack(w, i, freeFails) ==
    LET t == w.ents[i].m_temporary_allocation
    IN  IF t # LLDB_INVALID_ADDRESS
        THEN [DoFree(w, t, freeFails) EXCEPT
                 !.ents[i].value = ReadMem(w, t),
                 !.ents[i].m_temporary_allocation = LLDB_INVALID_ADDRESS]
        ELSE w

\* EntityVariable::Wipe; freeFails: the Free reports failure (ignored)
VariableWipe(w, i, freeFails) ==
    LET t == w.ents[i].m_temporary_allocation
    IN  IF t # LLDB_INVALID_ADDRESS
        THEN [DoFree(w, t, freeFails) EXCEPT
                 !.ents[i].m_temporary_allocation = LLDB_INVALID_ADDRESS]
        ELSE w

(* -------------------------- EntityResultVariable ---------------------- *)

\* a Materialize that gives a program reference a temporary as well
ResultMaterializeAlways(w, i, inp) ==
    LET e == w.ents[i]
    IN  IF e.m_temporary_allocation # LLDB_INVALID_ADDRESS
        THEN Fail(w, "DoubleAllocation")
        ELSE IF inp.mode = "malloc" \/ FreeRegions(w) = {}
        THEN Fail(w, "AllocationFailed")
        ELSE LET a  == Min(FreeRegions(w))
                 w1 == [DoMalloc(w, i, a) EXCEPT
                          !.ents[i].m_temporary_allocation = a]
             IN  IF inp.mode = "ptrwrite" THEN Fail(w1, "WriteFailed")
                 ELSE WriteSlot(w1, i, a)

\* EntityResultVariable::Materialize
ResultMaterialize(w, i, inp) ==
    LET e == w.ents[i]
    IN  IF e.m_is_program_reference THEN w
        ELSE IF e.m_temporary_allocation # LLDB_INVALID_ADDRESS
        THEN Fail(w, "DoubleAllocation")
        ELSE IF inp.mode = "malloc" \/ FreeRegions(w) = {}
        THEN Fail(w, "AllocationFailed")
        ELSE LET a  == Min(FreeRegions(w))
                 w1 == [DoMalloc(w, i, a) EXCEPT
                          !.ents[i].m_temporary_allocation = a]
             IN  IF inp.mode = "ptrwrite" THEN Fail(w1, "WriteFailed")
                 ELSE WriteSlot(w1, i, a)

\* EntityResultVariable::Dematerialize, the form every entity has
ResultDematerializeGeneric(w, i, inp) == Fail(w, "WrongEntry")

\* a result Dematerialize that treats every result as kept in memory
ResultDematerializeKept(w0, i, inp) ==
    LET w == [w0 EXCEPT !.op.err = "ok"]
        address == w.ents[i].slot
    IN  IF ~inp.scope THEN Fail(w, "NoExecutionScope")
        ELSE IF inp.mode = "read" THEN Fail(w, "ReadFailed")
        ELSE IF inp.mode = "target" THEN Fail(w, "NoTarget")
        ELSE IF inp.mode = "create" THEN Fail(w, "CreateFailed")
        ELSE IF inp.mode = "readmem"
        THEN Fail([w EXCEPT !.op.created = @ + 1], "ReadFailed")
        ELSE [w EXCEPT !.op.created = @ + 1,
                       !.op.result = [ made |-> TRUE,
                                       value |-> ReadMem(w, address),
                                       live |-> address,
                                       flags |-> {EVIsLLDBAllocated} ],
                       !.ents[i].m_temporary_allocation = LLDB_INVALID_ADDRESS]

\* a result Dematerialize that frees the temporary before it copies the
\* bytes
ResultDematerializeFreesFirst(w0, i, inp) ==
    LET w == [w0 EXCEPT !.op.err = "ok"]
        e == w.ents[i]
        t == e.m_temporary_allocation
        address == e.slot
    IN  IF ~inp.scope THEN Fail(w, "NoExecutionScope")
        ELSE IF inp.mode = "read" THEN Fail(w, "ReadFailed")
        ELSE IF inp.mode = "target" THEN Fail(w, "NoTarget")
        ELSE IF inp.mode = "create" THEN Fail(w, "CreateFailed")
        ELSE LET release == ~e.m_keep_in_memory /\ t # LLDB_INVALID_ADDRESS
                 w1 == [w EXCEPT !.op.created = @ + 1]
                 w2 == IF release
                       THEN [DoFree(w1, t, inp.mode = "free") EXCEPT
                               !.op.rfree = @ \cup {<< i, t >>}]
                       ELSE w1
             IN  IF inp.mode = "readmem" THEN Fail(w2, "ReadFailed")
                 ELSE [w2 EXCEPT
                         !.op.result =
                            [ made |-> TRUE, value |-> ReadMem(w2, address),
                              live |-> address,
                              flags |-> IF release THEN {EVNeedsAllocation}
                                        ELSE {EVIsLLDBAllocated} ],
                         !.ents[i].m_temporary_allocation = LLDB_INVALID_ADDRESS]

\* EntityResultVariable::Dematerialize, the form taking result_variable_sp
ResultDematerialize(w0, i, inp) ==
    LET w == [w0 EXCEPT !.op.err = "ok"]      \* err.Clear()
        e == w.ents[i]
        t == e.m_temporary_allocation
        address == e.slot
    IN  IF ~inp.scope THEN Fail(w, "NoExecutionScope")
        ELSE IF inp.mode = "read" THEN Fail(w, "ReadFailed")
        ELSE IF inp.mode = "target" THEN Fail(w, "NoTarget")
        ELSE IF inp.mode = "create" THEN Fail(w, "CreateFailed")
        ELSE LET w1 == [w EXCEPT !.op.created = @ + 1]
             IN  IF inp.mode = "readmem" THEN Fail(w1, "ReadFailed")
                 ELSE LET release == ~e.m_keep_in_memory
                                      /\ t # LLDB_INVALID_ADDRESS
                          rec == [ made |-> TRUE, value |-> ReadMem(w1, address),
                                   live |-> address,
                                   flags |-> IF release THEN {EVNeedsAllocation}
                                             ELSE {EVIsLLDBAllocated} ]
                          w2 == [w1 EXCEPT !.op.result = rec]
                          w3 == IF release
                                THEN [DoFree(w2, t, inp.mode = "free") EXCEPT
                                        !.op.rfree = @ \cup {<< i, t >>}]
                                ELSE w2
                      IN  [w3 EXCEPT !.ents[i].m_temporary_allocation =
                                         LLDB_INVALID_ADDRESS]

\* EntityResultVariable::Wipe
ResultWipe(w, i, freeFails) ==
    LET e  == w.ents[i]
        t  == e.m_temporary_allocation
        w1 == IF ~e.m_keep_in_memory /\ t # LLDB_INVALID_ADDRESS
              THEN DoFree(w, t, freeFails) ELSE w
    IN  [w1 EXCEPT !.ents[i].m_temporary_allocation = LLDB_INVALID_ADDRESS]

(* ------------------------ EntitySymbol, EntityRegister ---------------- *)

\* EntitySymbol::Materialize
SymbolMaterialize(w, i, inp) ==
    LET e == w.ents[i]
        resolved == IF e.addressable THEN SymbolLoadAddress
                    ELSE SymbolFileAddress
    IN  IF ~inp.scope \/ inp.mode = "target" THEN Fail(w, "NoTarget")
        ELSE IF inp.mode = "ptrwrite" THEN Fail(w, "WriteFailed")
        ELSE WriteSlot(w, i, resolved)

\* EntityRegister::Materialize
RegisterMaterialize(w, i, inp) ==
    LET e == w.ents[i]
    IN  IF ~inp.frame THEN Fail(w, "NoFrame")
        ELSE IF inp.mode = "regread" THEN Fail(w, "ReadFailed")
        ELSE IF inp.mode = "regdata" THEN Fail(w, "ReadFailed")
        ELSE IF inp.mode = "size" THEN Fail(w, "SizeMismatch")
        ELSE IF inp.mode = "write" THEN Fail(w, "WriteFailed")
        ELSE WriteSlot(w, i, e.value)

\* a Dematerialize that reads the slot and writes no register
RegisterDematerializeDrop(w, i, inp) ==
    IF ~inp.frame THEN Fail(w, "NoFrame") ELSE w

\* a Dematerialize that goes on without a stack frame
RegisterDematerializeFrameless(w, i, inp) ==
    LET e == w.ents[i]
    IN  IF inp.mode = "read" THEN Fail(w, "ReadFailed")
        ELSE IF inp.mode = "regwrite" THEN Fail(w, "WriteFailed")
        ELSE [w EXCEPT !.ents[i].value = e.slot, !.op.wrote = @ \cup {i}]

\* EntityRegister::Dematerialize
RegisterDematerialize(w, i, inp) ==
    LET e == w.ents[i]
    IN  IF ~inp.frame THEN Fail(w, "NoFrame")
        ELSE IF inp.mode = "read" THEN Fail(w, "ReadFailed")
        ELSE IF inp.mode = "regwrite" THEN Fail(w, "WriteFailed")
        ELSE [w EXCEPT !.ents[i].value = e.slot, !.op.wrote = @ \cup {i}]

(* ------------------------------ dispatch ------------------------------ *)

\* entity_up->Materialize (...), the virtual call
EntityMaterialize(w, i, inp) ==
    LET k == w.ents[i].kind
    IN  CASE k = "persistent" -> PersistentMaterialize(w, i, inp)
          [] k = "variable"   -> VariableMaterialize(w, i, inp)
          [] k = "result"     -> ResultMaterialize(w, i, inp)
          [] k = "symbol"     -> SymbolMaterialize(w, i, inp)
          [] k = "register"   -> RegisterMaterialize(w, i, inp)

\* entity_up->Dematerialize (...), the virtual call (EntitySymbol's does
\* nothing)
EntityDematerialize(w, i, inp) ==
    LET k == w.ents[i].kind
    IN  CASE k = "persistent" -> PersistentDematerialize(w, i, inp)
          [] k = "variable"   -> VariableDematerialize(w, i, inp)
          [] k = "result"     -> ResultDematerializeGeneric(w, i, inp)
          [] k = "symbol"     -> w
          [] k = "register"   -> RegisterDematerialize(w, i, inp)

\* entity_up->Wipe (...), the virtual call (only EntityVariable and
\* EntityResultVariable hold anything to release)
EntityWipe(w, i, freeFails) ==
    LET k == w.ents[i].kind
    IN  CASE k = "variable" -> VariableWipe(w, i, freeFails)
          [] k = "result"   -> ResultWipe(w, i, freeFails)
          [] OTHER          -> w

(* ------------------------------- drivers ------------------------------ *)

\* Materializer::Dematerializer::IsValid
IsValid(hr) ==
    hr.m_materializer /\ hr.m_map /\ hr.m_process_address # LLDB_INVALID_ADDRESS

\* the input with no failing call
Quiet(inp) == [inp EXCEPT !.mode = "none"]

\* the input entity i sees: the failing call is at entity inp.failAt only
InputAt(inp, i) == IF inp.failAt = i THEN inp ELSE Quiet(inp)

\* note that the input named a failure the call did not meet
Met(w, idle) == [w EXCEPT !.op.spurious = @ \/ idle]

\* the entity loop ended before the entity whose call was to fail
Reached(w, inp) == Met(w, inp.failAt > Len(w.op.visited))

\* bookkeeping after entity i's call: i was visited, and what it reported
Visited(w, i) ==
    [w EXCEPT !.op.visited = Append(@, i),
              !.op.entErr  = Append(@, w.op.raised),
              !.op.raised  = "ok"]

RECURSIVE MaterializeLoop(_, _, _)
\* the entity loop of Materializer::Materialize, from entity i on
MaterializeLoop(w, i, inp) ==
    IF i > Len(w.ents) THEN w
    ELSE LET Rest(w1) == IF w1.crash \/ w1.op.err # "ok" THEN w1
                         ELSE MaterializeLoop(w1, i + 1, inp)
         IN  Rest(Visited(EntityMaterialize(w, i, InputAt(inp, i)), i))

RECURSIVE DematerializeLoopUnstopped(_, _, _)
\* an entity loop that goes on after an entity has failed
DematerializeLoopUnstopped(w, i, inp) ==
    IF i > Len(w.ents) THEN w
    ELSE LET Rest(w1) == IF w1.crash THEN w1
                         ELSE DematerializeLoopUnstopped(w1, i + 1, inp)
         IN  Rest(Visited(IF i = m_result_entity
                          THEN ResultDematerialize(w, i, InputAt(inp, i))
                          ELSE EntityDematerialize(w, i, InputAt(inp, i)),
                          i))

RECURSIVE DematerializeLoopGeneric(_, _, _)
\* an entity loop that calls the form every entity has on the result too
DematerializeLoopGeneric(w, i, inp) ==
    IF i > Len(w.ents) THEN w
    ELSE LET Rest(w1) == IF w1.crash \/ w1.op.err # "ok" THEN w1
                         ELSE DematerializeLoopGeneric(w1, i + 1, inp)
         IN  Rest(Visited(EntityDematerialize(w, i, InputAt(inp, i)), i))

RECURSIVE DematerializeLoop(_, _, _)
\* the entity loop of Materializer::Dematerializer::Dematerialize
DematerializeLoop(w, i, inp) ==
    IF i > Len(w.ents) THEN w
    ELSE LET Rest(w1) == IF w1.crash \/ w1.op.err # "ok" THEN w1
                         ELSE DematerializeLoop(w1, i + 1, inp)
         IN  Rest(Visited(IF i = m_result_entity
                          THEN ResultDematerialize(w, i, InputAt(inp, i))
                          ELSE EntityDematerialize(w, i, InputAt(inp, i)),
                          i))

\* entity e's Wipe calls IRMemoryMap::Free
Frees(e) ==
    /\ e.m_temporary_allocation # LLDB_INVALID_ADDRESS
    /\ \/ e.kind = "variable"
       \/ e.kind = "result" /\ ~e.m_keep_in_memory

RECURSIVE WipeLoop(_, _, _)
\* the entity loop of Materializer::Dematerializer::Wipe
WipeLoop(w, i, wf) ==
    IF i > Len(w.ents) THEN w
    ELSE WipeLoop(Met(EntityWipe(w, i, i \in wf),
                      i \in wf /\ ~Frees(w.ents[i])),
                  i + 1, wf)

\* the fields Wipe resets
Cleared(hr) ==
    [hr EXCEPT !.m_materializer = FALSE, !.m_map = FALSE,
               !.m_process_address = LLDB_INVALID_ADDRESS]

\* a Wipe that does not test IsValid() first
DematerializerWipeUnguarded(w, hr, inp) ==
    IF ~materializerAlive
    THEN IF inp.ub = "crash" THEN [w |-> Crash(w), h |-> hr]
         ELSE [w |-> [w EXCEPT !.op.usedNull = TRUE], h |-> Cleared(hr)]
    ELSE [w |-> [WipeLoop(w, 1, {}) EXCEPT !.op.spurious = FALSE],
          h |-> Cleared(hr)]

\* Materializer::Dematerializer::Wipe on handle record hr: the world and
\* the handle afterwards.  A valid handle of a destroyed Materializer
\* walks m_entities through a dangling pointer.
DematerializerWipe(w, hr, inp) ==
    IF ~IsValid(hr) THEN [w |-> Met(w, inp.wf # {}), h |-> hr]
    ELSE IF ~materializerAlive
    THEN IF inp.ub = "crash" THEN [w |-> Crash(w), h |-> hr]
         ELSE [w |-> Met([w EXCEPT !.op.usedNull = TRUE], inp.wf # {}),
               h |-> Cleared(hr)]
    ELSE [w |-> WipeLoop(w, 1, inp.wf), h |-> Cleared(hr)]

\* a Dematerialize that returns without the final Wipe
DematerializeNoWipe(w, hr, inp) ==
    IF ~IsValid(hr) \/ ~materializerAlive THEN [w |-> Crash(w), h |-> hr]
    ELSE [w |-> [(IF ~inp.scope
                  THEN [w EXCEPT !.op.err = "NoExecutionScope",
                                 !.op.noScope = TRUE]
                  ELSE DematerializeLoop(w, 1, inp))
                 EXCEPT !.op.spurious = (inp.wf # {})],
          h |-> hr]

\* a Dematerialize that runs the entity loop without an execution scope
DematerializeScopeless(w, hr, inp) ==
    IF ~IsValid(hr) \/ ~materializerAlive THEN [w |-> Crash(w), h |-> hr]
    ELSE LET Finish(w1) ==
                 IF w1.crash THEN [w |-> w1, h |-> hr]
                 ELSE DematerializerWipe([w1 EXCEPT !.op.spurious = FALSE],
                                         hr, [inp EXCEPT !.wf = {}])
         IN  Finish(DematerializeLoop([w EXCEPT !.op.noScope = ~inp.scope],
                                      1, [inp EXCEPT !.scope = TRUE]))

\* Materializer::Dematerializer::Dematerialize on handle record hr.
\* m_map is dereferenced before IsValid() is tested, and neither failed
\* test returns: on a wiped handle the call goes through the null m_map.
DematerializerDematerialize(w, hr, inp) ==
    IF ~IsValid(hr)
    THEN IF inp.ub = "crash" THEN [w |-> Crash(w), h |-> hr]
         ELSE \* the scope read through the null map comes back null
              [w |-> Met([w EXCEPT !.op.usedNull = TRUE,
                                   !.op.err = "NoExecutionScope"],
                         inp.failAt # 0 \/ inp.wf # {}),
               h |-> hr]
    ELSE IF ~materializerAlive
    THEN IF inp.ub = "crash" THEN [w |-> Crash(w), h |-> hr]
         ELSE [w |-> Met([w EXCEPT !.op.usedNull = TRUE,
                                   !.op.err = IF inp.scope THEN "ok"
                                              ELSE "NoExecutionScope"],
                         inp.failAt # 0 \/ inp.wf # {}),
               h |-> Cleared(hr)]
    ELSE LET Finish(w1) == IF w1.crash THEN [w |-> w1, h |-> hr]
                           ELSE DematerializerWipe(w1, hr, inp)
         IN  Finish(Reached(IF ~inp.scope
                            THEN [w EXCEPT !.op.err = "NoExecutionScope",
                                           !.op.noScope = TRUE]
                            ELSE DematerializeLoop(w, 1, inp),
                            inp))

\* m_dematerializer_wp.lock() is non-null
Locked == m_dematerializer_wp # NoHandle /\ handles[m_dematerializer_wp].alive

\* Materializer::Materialize up to its return: the world, and whether the
\* new Dematerializer is returned (and installed in m_dematerializer_wp).
\* Neither failed test returns; the loop returns null on the first entity
\* after which error is set, and the abandoned Dematerializer is destroyed.
MaterializerMaterialize(w, hr, inp) ==
    LET scope == inp.frame \/ inp.scope
        Return(w1) ==
            IF w1.crash THEN [w |-> w1, returned |-> FALSE]
            ELSE IF w1.op.err # "ok" /\ Len(w1.op.visited) > 0
            THEN [w |-> DematerializerWipe(w1, hr, inp).w, returned |-> FALSE]
            ELSE [w |-> Met(w1, inp.wf # {}), returned |-> TRUE]
    IN  Return(Reached(MaterializeLoop(
                 [w EXCEPT !.op.err = IF ~scope THEN "NoExecutionScope"
                                      ELSE IF Locked THEN "AlreadyMaterialized"
                                      ELSE "ok",
                           !.op.already = Locked,
                           !.op.noScope = ~scope],
                 1, inp), inp))

(* ------------------------------- inputs ------------------------------- *)

\* the collaborator calls that can fail in one entity's Materialize
MaterializeModes(e) ==
    CASE e.kind = "persistent" -> {"malloc", "write", "ptrwrite"}
      [] e.kind = "variable"   -> {"valobj", "size", "malloc", "write", "ptrwrite"}
      [] e.kind = "result"     -> {"malloc", "ptrwrite"}
      [] e.kind = "symbol"     -> {"target", "ptrwrite"}
      [] e.kind = "register"   -> {"regread", "regdata", "size", "write"}

\* the collaborator calls that can fail in one entity's Dematerialize
DematerializeModes(e) ==
    CASE e.kind = "persistent" -> {"read", "readmem", "free"}
      [] e.kind = "variable"   -> {"valobj", "read", "setdata", "free"}
      [] e.kind = "result"     -> {"read", "target", "create", "readmem", "free"}
      [] e.kind = "symbol"     -> {}
      [] e.kind = "register"   -> {"read", "regwrite"}

NoFailure == << 0, "none" >>

MaterializeFailures ==
    {NoFailure} \cup
    { p \in (1..MaxEntities + 1) \X FailModes :
        p[1] <= Len(m_entities) /\ p[2] \in MaterializeModes(m_entities[p[1]]) }

DematerializeFailures ==
    {NoFailure} \cup
    { p \in (1..MaxEntities + 1) \X FailModes :
        p[1] <= Len(m_entities) /\ p[2] \in DematerializeModes(m_entities[p[1]]) }

\* the entities that can hold a temporary Wipe frees
Spills(e) ==
    \/ e.kind = "variable" /\ ~e.m_is_reference /\ ~e.addressable
    \/ e.kind = "result" /\ ~e.m_is_program_reference /\ ~e.m_keep_in_memory

\* the entities whose Free can fail during the Wipe that ends a Materialize
MaterializeWipeFailures ==
    SUBSET { i \in 1..Len(m_entities) : Spills(m_entities[i]) }

\* the entities whose Free can fail during Wipe
WipeFailures ==
    SUBSET { i \in 1..Len(m_entities) :
               /\ Spills(m_entities[i])
               /\ m_entities[i].m_temporary_allocation # LLDB_INVALID_ADDRESS }

\* a call's input; frame_sp (or m_frame_wp.lock()) is the stack frame while
\* it exists and null afterwards
Input(fp, ub, range, wf) ==
    [ failAt |-> fp[1], mode |-> fp[2], ub |-> ub, frame |-> frameAlive,
      scope |-> mapScope, top |-> range[1], bottom |-> range[2], wf |-> wf ]

NoFrameRange == << LLDB_INVALID_ADDRESS, LLDB_INVALID_ADDRESS >>

\* the temporaries EntityVariables and not-kept EntityResultVariables hold
Temporaries(ents) ==
    { ents[i].m_temporary_allocation : i \in
        { j \in 1..Len(ents) :
            /\ ents[j].m_temporary_allocation # LLDB_INVALID_ADDRESS
            /\ \/ ents[j].kind = "variable"
               \/ ents[j].kind = "result" /\ ~ents[j].m_keep_in_memory } }

StartOp(name, h) ==
    [BlankOp EXCEPT !.op = name, !.h = h,
        !.wasValid = IF h = NoHandle THEN FALSE ELSE IsValid(handles[h]),
        !.priorValid = Locked /\ IsValid(handles[m_dematerializer_wp]),
        !.tempsBefore = Temporaries(m_entities)]

\* the record of a call whose input names the collaborator call fp
StartCall(name, h, fp) ==
    [StartOp(name, h) EXCEPT !.failAt = fp[1], !.mode = fp[2]]

\* the world a call leaves becomes the state
Commit(w) ==
    /\ m_entities' = w.ents
    /\ region' = w.region
    /\ owner' = w.owner
    /\ mem' = w.mem
    /\ crashed' = FALSE

\* the call dereferenced a null or dangling pointer and the process died:
\* nothing of the debugger's state is left but the record of that call
Die(op) ==
    /\ crashed' = TRUE
    /\ lastOp' = op
    /\ m_entities' = << >>
    /\ m_current_offset' = 0
    /\ m_struct_alignment' = InitialStructAlignment
    /\ m_result_entity' = NoEntity
    /\ m_dematerializer_wp' = NoHandle
    /\ materializerAlive' = FALSE
    /\ handles' = [h \in 1..MaxHandles |-> NullHandle]
    /\ region' = [a \in Heap |-> "free"]
    /\ owner' = [a \in Heap |-> NoOwner]
    /\ mem' = [a \in Heap |-> 0]
    /\ frameAlive' = FALSE
    /\ mapScope' = FALSE

(* ------------------------------- actions ------------------------------ *)

CanAdd == materializerAlive /\ ~crashed

\* fewer than n entities have been added
Room(n) == Len(m_entities) < n

\* an Add* whose SetOffset goes to the first entity of the list
AddEntityFirstOffset(e, ub, isResult) ==
    LET lay == AddStructMember(m_current_offset, m_struct_alignment,
                               e.m_size, e.m_alignment)
    IN  /\ CanAdd
        /\ m_entities' = [Append(m_entities, e) EXCEPT ![1].m_offset = lay.ret]
        /\ m_current_offset' = lay.m_current_offset
        /\ m_struct_alignment' = lay.m_struct_alignment
        /\ m_result_entity' = IF isResult THEN Len(m_entities) + 1
                              ELSE m_result_entity
        /\ lastOp' = [BlankOp EXCEPT !.op = "Add", !.offset = lay.ret,
                                     !.cur0 = m_current_offset]
        /\ UNCHANGED << m_dematerializer_wp, materializerAlive, handles,
                        region, owner, mem, frameAlive, mapScope, crashed >>

\* the body the five Add* methods share: append the entity, lay it out,
\* SetOffset.  A zero alignment makes AddStructMember divide by zero.
AddEntity(e, ub, isResult) ==
    LET lay == AddStructMember(m_current_offset, m_struct_alignment,
                               e.m_size, e.m_alignment)
        op  == [BlankOp EXCEPT !.op = "Add", !.offset = lay.ret,
                               !.cur0 = m_current_offset,
                               !.usedNull = (e.m_alignment = 0)]
    IN  /\ CanAdd
        /\ IF e.m_alignment = 0 /\ ub = "crash" THEN Die(op)
           ELSE /\ m_entities' = Append(m_entities,
                                        [e EXCEPT !.m_offset = lay.ret])
                /\ m_current_offset' = lay.m_current_offset
                /\ m_struct_alignment' = lay.m_struct_alignment
                /\ m_result_entity' = IF isResult THEN Len(m_entities) + 1
                                      ELSE m_result_entity
                /\ lastOp' = op
                /\ UNCHANGED << m_dematerializer_wp, materializerAlive,
                                handles, region, owner, mem, frameAlive,
                                mapScope, crashed >>

\* Materializer::AddPersistentVariable
AddPersistentVariable(flags) ==
    AddEntity(EntityPersistentVariable(flags), "crash", FALSE)

\* Materializer::AddVariable
AddVariable(isRef, addressable, v) ==
    AddEntity(EntityVariable(isRef, addressable, v), "crash", FALSE)

\* Materializer::AddResultVariable
AddResultVariable(isProgRef, keep) ==
    AddEntity(EntityResultVariable(isProgRef, keep), "crash", TRUE)

\* Materializer::AddSymbol
AddSymbol(hasLoadAddress) ==
    AddEntity(EntitySymbol(hasLoadAddress), "crash", FALSE)

\* Materializer::AddRegister
AddRegister(byte_size, v, ub) ==
    AddEntity(EntityRegister(byte_size, v), ub, FALSE)

FreeHandles == { h \in 1..MaxHandles : ~handles[h].alive }

\* the Dematerializer that Materialize constructs
NewHandle == [ alive |-> TRUE, m_materializer |-> TRUE, m_map |-> TRUE,
               m_process_address |-> StructAddress ]

\* Materializer::Materialize (frame_sp, map, process_address, error)
Materialize(fp, ub, wf) ==
    /\ materializerAlive /\ ~crashed
    /\ FreeHandles # {}
    /\ \E h \in {Min(FreeHandles)},
          r \in {MaterializerMaterialize(
                   World(m_entities, StartCall("Materialize", NoHandle, fp)),
                   NewHandle, Input(fp, ub, NoFrameRange, wf))} :
           IF r.w.crash THEN Die(r.w.op)
           ELSE /\ ~r.w.op.spurious
                /\ Commit(r.w)
                /\ handles' = IF r.returned
                              THEN [handles EXCEPT ![h] = NewHandle]
                              ELSE handles
                /\ m_dematerializer_wp' = IF r.returned THEN h
                                          ELSE m_dematerializer_wp
                /\ lastOp' = [r.w.op EXCEPT !.ret = IF r.returned THEN h
                                                     ELSE NoHandle]
                /\ UNCHANGED << m_current_offset, m_struct_alignment,
                                m_result_entity, materializerAlive,
                                frameAlive, mapScope >>

\* Materializer::Dematerializer::Dematerialize (error, result_sp,
\* frame_top, frame_bottom) on handle h
Dematerialize(h, fp, ub, range, wf) ==
    /\ ~crashed /\ handles[h].alive
    /\ \E r \in {DematerializerDematerialize(
                   World(m_entities,
                         [StartCall("Dematerialize", h, fp) EXCEPT
                            !.top = range[1], !.bottom = range[2]]),
                   handles[h], Input(fp, ub, range, wf))} :
           IF r.w.crash THEN Die(r.w.op)
           ELSE /\ ~r.w.op.spurious
                /\ Commit(r.w)
                /\ handles' = [handles EXCEPT ![h] = r.h]
                /\ lastOp' = r.w.op
                /\ UNCHANGED << m_current_offset, m_struct_alignment,
                                m_result_entity, m_dematerializer_wp,
                                materializerAlive, frameAlive, mapScope >>

\* Materializer::Dematerializer::Wipe () on handle h
Wipe(h, ub, wf) ==
    /\ ~crashed /\ handles[h].alive
    /\ \E r \in {DematerializerWipe(World(m_entities, StartOp("Wipe", h)),
                                      handles[h],
                                      Input(NoFailure, ub, NoFrameRange, wf))} :
           IF r.w.crash THEN Die(r.w.op)
           ELSE /\ ~r.w.op.spurious
                /\ Commit(r.w)
                /\ handles' = [handles EXCEPT ![h] = r.h]
                /\ lastOp' = r.w.op
                /\ UNCHANGED << m_current_offset, m_struct_alignment,
                                m_result_entity, m_dematerializer_wp,
                                materializerAlive, frameAlive, mapScope >>

\* the handles the caller still holds once it drops handle h, in the order
\* Materialize returned them
Dropped(h) ==
    [ k \in 1..MaxHandles |->
        IF k < h THEN handles[k]
        ELSE IF k < MaxHandles THEN handles[k + 1] ELSE NullHandle ]

\* Materializer::Dematerializer::~Dematerializer: the caller drops its
\* DematerializerSP, the destructor wipes, the weak pointer expires
ReleaseHandle(h, ub, wf) ==
    /\ ~crashed /\ handles[h].alive
    /\ \E r \in {DematerializerWipe(
                   World(m_entities, StartOp("Release", h)), handles[h],
                   Input(NoFailure, ub, NoFrameRange, wf))} :
           IF r.w.crash THEN Die(r.w.op)
           ELSE /\ ~r.w.op.spurious
                /\ Commit(r.w)
                /\ handles' = Dropped(h)
                /\ m_dematerializer_wp' =
                      IF m_dematerializer_wp = h THEN NoHandle
                      ELSE IF m_dematerializer_wp > h
                      THEN m_dematerializer_wp - 1
                      ELSE m_dematerializer_wp
                /\ lastOp' = r.w.op
                /\ UNCHANGED << m_current_offset, m_struct_alignment,
                                m_result_entity, materializerAlive,
                                frameAlive, mapScope >>

\* Materializer::~Materializer: wipe the Dematerializer the weak pointer
\* still reaches; the entities go with the Materializer
DestroyMaterializer(wf) ==
    /\ materializerAlive /\ ~crashed
    /\ \E h \in {IF Locked THEN m_dematerializer_wp ELSE NoHandle} :
       \E r \in {IF Locked
                 THEN DematerializerWipe(
                        World(m_entities, StartOp("Destroy", h)), handles[h],
                        Input(NoFailure, "crash", NoFrameRange, wf))
                 ELSE [w |-> Met(World(m_entities, StartOp("Destroy", h)),
                                 wf # {}),
                       h |-> NullHandle]} :
           /\ ~r.w.op.spurious
           /\ region' = r.w.region
           /\ owner' = r.w.owner
           /\ mem' = r.w.mem
           /\ handles' = IF Locked THEN [handles EXCEPT ![h] = r.h]
                         ELSE handles
           /\ lastOp' = r.w.op
    /\ m_entities' = << >>
    /\ m_result_entity' = NoEntity
    /\ m_dematerializer_wp' = NoHandle
    /\ materializerAlive' = FALSE
    /\ UNCHANGED << m_current_offset, m_struct_alignment, frameAlive,
                    mapScope, crashed >>

(* ----------------------------- environment ---------------------------- *)

\* the stack frame goes away (frame_sp is null from now on)
FrameGone ==
    /\ ~crashed /\ frameAlive
    /\ frameAlive' = FALSE
    /\ lastOp' = [BlankOp EXCEPT !.op = "Env"]
    /\ UNCHANGED << m_entities, m_current_offset, m_struct_alignment,
                    m_result_entity, m_dematerializer_wp, materializerAlive,
                    handles, region, owner, mem, mapScope, crashed >>

\* the process and target go away, and its frames with it: the map has no
\* execution scope left
ScopeGone ==
    /\ ~crashed /\ mapScope
    /\ mapScope' = FALSE
    /\ frameAlive' = FALSE
    /\ lastOp' = [BlankOp EXCEPT !.op = "Env"]
    /\ UNCHANGED << m_entities, m_current_offset, m_struct_alignment,
                    m_result_entity, m_dematerializer_wp, materializerAlive,
                    handles, region, owner, mem, crashed >>

\* the addresses the expression can leave in the slot of a program
\* reference: a variable of the program, or one in the expression's frame
ProgramAddresses == {VariableAddress, StackAddress}

\* what the expression can store into entity e's slot of the struct
SlotStores(e) ==
    IF e.kind = "register" THEN Values
    ELSE IF \/ e.kind = "persistent" /\ EVIsProgramReference \in e.m_flags
            \/ e.kind = "result" /\ e.m_is_program_reference
    THEN ProgramAddresses
    ELSE {}

\* the expression, running while a Dematerializer is outstanding, stores v
\* into region a of the memory map
ExprWriteMem(a, v) ==
    /\ ~crashed /\ materializerAlive
    /\ \E h \in 1..MaxHandles : handles[h].alive /\ IsValid(handles[h])
    /\ region[a] = "live" /\ mem[a] # v
    /\ mem' = [mem EXCEPT ![a] = v]
    /\ lastOp' = [BlankOp EXCEPT !.op = "Env"]
    /\ UNCHANGED << m_entities, m_current_offset, m_struct_alignment,
                    m_result_entity, m_dematerializer_wp, materializerAlive,
                    handles, region, owner, frameAlive, mapScope, crashed >>

\* the expression stores v into entity i's slot of the argument struct
ExprWriteSlot(i, v) ==
    /\ ~crashed /\ materializerAlive
    /\ \E h \in 1..MaxHandles : handles[h].alive /\ IsValid(handles[h])
    /\ i \in 1..Len(m_entities)
    /\ v \in SlotStores(m_entities[i]) /\ m_entities[i].slot # v
    /\ m_entities' = [m_entities EXCEPT ![i].slot = v]
    /\ lastOp' = [BlankOp EXCEPT !.op = "Env"]
    /\ UNCHANGED << m_current_offset, m_struct_alignment, m_result_entity,
                    m_dematerializer_wp, materializerAlive, handles, region,
                    owner, mem, frameAlive, mapScope, crashed >>

(* ---------------------------- specification --------------------------- *)

\* Materializer::Materializer, and an empty memory map
Init ==
    /\ m_entities = << >>
    /\ m_current_offset = 0
    /\ m_struct_alignment = InitialStructAlignment
    /\ m_result_entity = NoEntity
    /\ m_dematerializer_wp = NoHandle
    /\ materializerAlive = TRUE
    /\ handles = [h \in 1..MaxHandles |-> NullHandle]
    /\ region = [a \in Heap |-> "free"]
    /\ owner = [a \in Heap |-> NoOwner]
    /\ mem = [a \in Heap |-> 0]
    /\ frameAlive = TRUE
    /\ mapScope = TRUE
    /\ crashed = FALSE
    /\ lastOp = BlankOp

\* the outcomes of an undefined dereference, where one can happen
UBFor(possible) == IF possible THEN UBOutcomes ELSE {"crash"}

\* a persistent variable without a live location: its Materialize and
\* Dematerialize can go through the empty m_live_sp
NoLiveLocation ==
    \E i \in 1..Len(m_entities) :
       m_entities[i].kind = "persistent" /\ m_entities[i].m_live_sp = NULL_SP

\* the entities the protocol is exercised with
ProtocolPersistent == { {EVIsLLDBAllocated, EVNeedsAllocation} }
ProtocolVariables  == {"spilled"}
ProtocolResults    == { << FALSE, FALSE >>, << FALSE, TRUE >> }
ProtocolRegisters  == {4}

\* The Materialize / Dematerialize / Wipe protocol: entities that hold a
\* temporary or copy a value back, every failing collaborator call, handles
\* kept, wiped and dropped in any order.
Next ==
    \/ Room(MaxEntities) /\ \E flags \in ProtocolPersistent :
          AddPersistentVariable(flags)
    \/ Room(MaxEntities) /\ \E loc \in ProtocolVariables, v \in InitialValues :
          AddVariable(loc = "reference", loc = "addressable", v)
    \/ Room(MaxEntities) /\ \E r \in ProtocolResults :
          AddResultVariable(r[1], r[2])
    \/ Room(MaxEntities) /\ \E bs \in ProtocolRegisters, v \in InitialValues :
          AddRegister(bs, v, "crash")
    \/ \E fp \in MaterializeFailures, wf \in MaterializeWipeFailures :
          \E ub \in UBFor(NoLiveLocation) : Materialize(fp, ub, wf)
    \/ \E h \in 1..MaxHandles, fp \in DematerializeFailures,
          wf \in WipeFailures :
          \E ub \in UBFor(\/ ~IsValid(handles[h])
                           \/ ~materializerAlive
                           \/ NoLiveLocation) :
             Dematerialize(h, fp, ub, NoFrameRange, wf)
    \/ \E h \in 1..MaxHandles, wf \in WipeFailures :
          \E ub \in UBFor(~materializerAlive) : Wipe(h, ub, wf)
    \/ \E h \in 1..MaxHandles, wf \in WipeFailures :
          \E ub \in UBFor(~materializerAlive) : ReleaseHandle(h, ub, wf)
    \/ \E wf \in WipeFailures : DestroyMaterializer(wf)
    \/ FrameGone
    \/ ScopeGone

Spec == Init /\ [][Next]_vars

\* the result flags AddResultVariable is called with
ResultPresets == BOOLEAN \X BOOLEAN

\* The layout engine alone: entities of every kind and every register size
\* appended in any order.
LayoutNext ==
    \/ Room(MaxMembers) /\ \E flags \in PersistentPresets :
          AddPersistentVariable(flags)
    \/ Room(MaxMembers) /\ \E loc \in VariableLocations, v \in InitialValues :
          AddVariable(loc = "reference", loc = "addressable", v)
    \/ Room(MaxMembers) /\ \E r \in ResultPresets :
          AddResultVariable(r[1], r[2])
    \/ Room(MaxMembers) /\ \E a \in BOOLEAN : AddSymbol(a)
    \/ Room(MaxMembers) /\ \E bs \in RegisterByteSizes, v \in InitialValues :
          \E ub \in UBFor(bs = 0) : AddRegister(bs, v, ub)

LayoutSpec == Init /\ [][LayoutNext]_vars

\* a program reference whose live location Dematerialize has yet to set
\* up: the only entity that looks at frame_top and frame_bottom
UnboundReference ==
    \E i \in 1..Len(m_entities) :
       /\ m_entities[i].kind = "persistent"
       /\ EVIsProgramReference \in m_entities[i].m_flags
       /\ m_entities[i].m_live_sp = NULL_SP

\* the frame ranges Dematerialize is called with, where one is looked at
RangesFor(looked) == IF looked THEN FrameRanges ELSE {NoFrameRange}

\* the register byte sizes the entities are exercised with
EntityRegisters == {4}

\* The entities: every kind and every flag set materialized, the
\* expression storing into temporaries and slots, and the values
\* dematerialized or wiped.
EntityNext ==
    \/ Room(MaxEntities) /\ \E flags \in PersistentPresets :
          AddPersistentVariable(flags)
    \/ Room(MaxEntities) /\ \E loc \in VariableLocations, v \in InitialValues :
          AddVariable(loc = "reference", loc = "addressable", v)
    \/ Room(MaxEntities) /\ \E r \in ResultPresets :
          AddResultVariable(r[1], r[2])
    \/ Room(MaxEntities) /\ \E a \in BOOLEAN : AddSymbol(a)
    \/ Room(MaxEntities) /\ \E bs \in EntityRegisters, v \in InitialValues :
          AddRegister(bs, v, "crash")
    \/ \E fp \in MaterializeFailures, wf \in MaterializeWipeFailures :
          \E ub \in UBFor(NoLiveLocation) : Materialize(fp, ub, wf)
    \/ \E h \in 1..MaxHandles, fp \in DematerializeFailures,
          wf \in WipeFailures, range \in RangesFor(UnboundReference) :
          \E ub \in UBFor(~IsValid(handles[h]) \/ NoLiveLocation) :
             Dematerialize(h, fp, ub, range, wf)
    \/ \E h \in 1..MaxHandles, wf \in WipeFailures : Wipe(h, "crash", wf)
    \/ \E a \in Heap, v \in Values : ExprWriteMem(a, v)
    \/ \E i \in 1..MaxEntities, v \in Values \cup ProgramAddresses :
          ExprWriteSlot(i, v)

EntitySpec == Init /\ [][EntityNext]_vars

\* The persistent variables over one expression after another: every flag
\* set, the Dematerializer dematerialized or wiped and then dropped, so
\* that the next Materialize finds m_dematerializer_wp expired.
CycleNext ==
    \/ Room(MaxEntities) /\ \E flags \in PersistentPresets :
          AddPersistentVariable(flags)
    \/ \E fp \in MaterializeFailures, wf \in MaterializeWipeFailures :
          \E ub \in UBFor(NoLiveLocation) : Materialize(fp, ub, wf)
    \/ \E h \in 1..MaxHandles, fp \in DematerializeFailures,
          wf \in WipeFailures, range \in RangesFor(UnboundReference) :
          \E ub \in UBFor(~IsValid(handles[h]) \/ NoLiveLocation) :
             Dematerialize(h, fp, ub, range, wf)
    \/ \E h \in 1..MaxHandles, wf \in WipeFailures : Wipe(h, "crash", wf)
    \/ \E h \in 1..MaxHandles, wf \in WipeFailures :
          ReleaseHandle(h, "crash", wf)
    \/ \E a \in Heap, v \in InitialValues : ExprWriteMem(a, v)
    \/ \E i \in 1..MaxEntities, v \in ProgramAddresses : ExprWriteSlot(i, v)

CycleSpec == Init /\ [][CycleNext]_vars


(* ------------------------------ properties ---------------------------- *)

\* the Dematerializers the caller holds for which IsValid() is true
ValidHandles ==
    { h \in 1..MaxHandles : handles[h].alive /\ IsValid(handles[h]) }

\* the regions still allocated to an EntityVariable or to an
\* EntityResultVariable that does not keep its memory, no Free issued
Scratch ==
    { a \in Heap : /\ region[a] = "live"
                   /\ \/ owner[a].kind = "variable"
                      \/ owner[a].kind = "result" /\ ~owner[a].keep }

\* entity i of the Materializer records a temporary allocation
HoldsTemporary(i) ==
    /\ m_entities[i].kind \in {"variable", "result"}
    /\ m_entities[i].m_temporary_allocation # LLDB_INVALID_ADDRESS

\* C1: at most one valid Dematerializer exists, and a Materialize made
\* while the Dematerializer of an earlier Materialize is still valid
\* returns an error and no handle, whatever the entity list.
C1_SingleDematerializer ==
    /\ Cardinality(ValidHandles) <= 1
    /\ (lastOp.op = "Materialize" /\ lastOp.priorValid)
          => (lastOp.err # "ok" /\ lastOp.ret = NoHandle)

\* C2: a handle is invalid after Dematerialize or Wipe, and a Dematerialize
\* on an invalid handle fails with Invalidated and goes through no cleared
\* binding.
C2_InvalidatedDematerialize ==
    /\ (lastOp.op \in {"Dematerialize", "Wipe"} /\ ~crashed)
          => ~IsValid(handles[lastOp.h])
    /\ (lastOp.op = "Dematerialize" /\ ~lastOp.wasValid)
          => (~crashed /\ ~lastOp.usedNull /\ lastOp.err = "Invalidated")

C4_DematerializeWipes ==
    (lastOp.op = "Dematerialize" /\ lastOp.wasValid /\ ~crashed)
       => /\ ~IsValid(handles[lastOp.h])
          /\ \A i \in 1..Len(m_entities) : ~HoldsTemporary(i)

\* C4 happens: an entity's Dematerialize failed and the temporaries were
\* freed all the same
C4_Witness ==
    /\ lastOp.op = "Dematerialize" /\ lastOp.wasValid /\ ~crashed
    /\ lastOp.err # "ok" /\ lastOp.visited # << >>
    /\ lastOp.tempsBefore # {} /\ lastOp.frees # << >>

\* C5: a Wipe on a handle already wiped or dematerialized changes nothing
\* and issues no Free.
C5_WipeIdempotent ==
    [][(lastOp'.op = "Wipe" /\ ~lastOp'.wasValid)
          => (UNCHANGED progVars /\ lastOp'.frees = << >>)]_vars

\* C5 happens: a consumed handle is wiped again while entities hold
\* temporaries, which stay
C5_Witness ==
    /\ lastOp.op = "Wipe" /\ ~lastOp.wasValid /\ ~crashed
    /\ Temporaries(m_entities) # {}

\* C6: a Materialize is rejected as already materialized only while the
\* Dematerializer the Materializer is bound to is valid: a consumed handle
\* the caller still holds does not count.
C6_ConsumedHandleUnbinds ==
    (lastOp.op = "Materialize" /\ lastOp.already) => lastOp.priorValid

\* C7: after the Materializer is destroyed no Dematerializer of it is
\* valid, every temporary has had its Free issued, and nothing was copied
\* back.
C7_DestroyWipes ==
    lastOp.op = "Destroy"
       => (ValidHandles = {} /\ Scratch = {} /\ lastOp.wrote = {})

\* C8: a Materialize with no execution scope fails with NoExecutionScope
\* and returns no Dematerializer, whatever the entity list.
C8_NoScopeNoHandle ==
    (lastOp.op = "Materialize" /\ lastOp.noScope)
       => (lastOp.err # "ok" /\ lastOp.ret = NoHandle /\ ValidHandles = {})

\* C9: Materialize and Dematerialize visit the entities in insertion
\* order, an entity only after all before it reported no error, and the
\* error of the entity that failed is the one returned.
C9_InOrderFirstFailure ==
    lastOp.op \in {"Materialize", "Dematerialize"}
       => LET k == Len(lastOp.visited)
          IN  /\ \A j \in 1..k : lastOp.visited[j] = j
              /\ \A j \in 1..k : j < k => lastOp.entErr[j] = "ok"
              /\ (k > 0 /\ lastOp.entErr[k] # "ok" /\ ~crashed)
                    => lastOp.err = lastOp.entErr[k]

\* C9 happens: the first of two entities failed in Dematerialize and the
\* second was not visited
C9_Witness ==
    /\ lastOp.op = "Dematerialize" /\ ~crashed
    /\ Len(m_entities) = 2
    /\ lastOp.visited = << 1 >> /\ lastOp.entErr[1] # "ok"

\* C10: a Dematerialize on a valid handle whose execution scope is gone
\* fails with NoExecutionScope, calls no entity's Dematerialize and copies
\* nothing back, and still wipes: the temporaries get their Free and the
\* handle is invalid.
C10_ScopeGoneStillWipes ==
    (lastOp.op = "Dematerialize" /\ lastOp.wasValid /\ lastOp.noScope
        /\ ~crashed)
       => /\ lastOp.err = "NoExecutionScope"
          /\ lastOp.visited = << >> /\ lastOp.wrote = {}
          /\ lastOp.tempsBefore \subseteq SeqToSet(lastOp.frees)
          /\ Scratch = {} /\ Temporaries(m_entities) = {}
          /\ ~IsValid(handles[lastOp.h])

\* C10 happens: the scope went away under a valid handle whose entities
\* held temporaries
C10_Witness ==
    /\ lastOp.op = "Dematerialize" /\ lastOp.wasValid /\ lastOp.noScope
    /\ ~crashed /\ lastOp.tempsBefore # {}

(* ------------------------- properties: layout ------------------------- *)

\* o is a multiple of a (of 0, only 0 is)
IsMultiple(o, a) == \E k \in 0..o : o = k * a

Max(S) == CHOOSE x \in S : \A y \in S : x >= y

\* the (size, alignment) pairs of the entities, in insertion order
Shape == [ i \in 1..Len(m_entities) |->
             << m_entities[i].m_size, m_entities[i].m_alignment >> ]

\* the offsets of the entities, in insertion order
Offsets == [ i \in 1..Len(m_entities) |-> m_entities[i].m_offset ]

\* what Materialize, Dematerialize and Wipe must leave alone
Triple(e) == << e.m_size, e.m_alignment, e.m_offset >>

\* C11: after any sequence of Add* calls every entity's offset is a
\* multiple of that entity's alignment.
C11_OffsetsAligned ==
    \A i \in 1..Len(m_entities) :
       IsMultiple(m_entities[i].m_offset, m_entities[i].m_alignment)

\* C11 happens: an entity was moved up past padding to reach its alignment
C11_Witness ==
    \E i \in 2..Len(m_entities) :
       /\ m_entities[i].m_alignment > 1
       /\ m_entities[i].m_offset >
             m_entities[i - 1].m_offset + m_entities[i - 1].m_size

\* C12: slots never overlap and follow insertion order: for entities i < j
\* the offset of j is at least the offset of i plus the size of i.
C12_SlotsInOrder ==
    \A i, j \in 1..Len(m_entities) :
       i < j => m_entities[j].m_offset >=
                   m_entities[i].m_offset + m_entities[i].m_size

\* C13: every append returns the smallest multiple of the entity's
\* alignment that is not below m_current_offset as it was, and leaves
\* m_current_offset at that offset plus the entity's size; A(4,4), B(8,8),
\* C(1,1) get offsets 0, 8, 16 with m_current_offset 17 and
\* m_struct_alignment 4.
C13_ExactPacking ==
    /\ (lastOp.op = "Add" /\ ~crashed)
          => LET e == m_entities[Len(m_entities)]
             IN  /\ e.m_offset = lastOp.offset
                 /\ lastOp.offset >= lastOp.cur0
                 /\ IsMultiple(lastOp.offset, e.m_alignment)
                 /\ \A o \in lastOp.cur0 .. (lastOp.offset - 1) :
                       ~IsMultiple(o, e.m_alignment)
                 /\ m_current_offset = lastOp.offset + e.m_size
    /\ Shape = << << 4, 4 >>, << 8, 8 >>, << 1, 1 >> >>
          => /\ Offsets = << 0, 8, 16 >>
             /\ m_current_offset = 17
             /\ m_struct_alignment = 4

\* C14: after any non-empty sequence of appends, one starting with
\* zero-size entities included, m_struct_alignment is the alignment of the
\* first entity appended.
C14_FirstAlignmentKept ==
    (Len(m_entities) > 0 /\ ~crashed)
       => m_struct_alignment = m_entities[1].m_alignment

\* C15: the struct alignment the Materializer reports is the maximum of
\* its members' alignments, and never less than 8.
C15_StructAlignmentIsMax ==
    (materializerAlive /\ ~crashed)
       => m_struct_alignment =
             Max({8} \cup { m_entities[i].m_alignment :
                              i \in 1..Len(m_entities) })

\* C16: every entity an Add* creates has an alignment that is a power of
\* two and at most 8, a register entity of any byte size included.
C16_AlignmentPowerOfTwo ==
    \A i \in 1..Len(m_entities) : m_entities[i].m_alignment \in {1, 2, 4, 8}

\* C17: every Add* completes, a zero-size entity's included, assigns an
\* offset not below any earlier offset, and does no I/O.
C17_AcceptsEveryEntity ==
    lastOp.op = "Add"
       => /\ ~crashed /\ ~lastOp.usedNull
          /\ \A i \in 1..Len(m_entities) :
                m_entities[i].m_offset <= lastOp.offset
          /\ lastOp.mallocs = << >> /\ lastOp.frees = << >>
          /\ lastOp.bytes = {} /\ lastOp.wrote = {}

(* ------------------- properties: frame and ownership ------------------ *)

\* C18: once an entity has its offset, no Add*, Materialize, Dematerialize
\* or Wipe changes its size, alignment or offset.
C18_TripleFrozen ==
    [][\A i \in 1..Len(m_entities) :
          i <= Len(m_entities')
             => Triple(m_entities'[i]) = Triple(m_entities[i])]_vars

\* C18 happens: a second entity was added behind a first, values were
\* written to the slots and copied back, and the entities are still there
C18_Witness ==
    /\ lastOp.op = "Dematerialize" /\ ~crashed
    /\ lastOp.wrote # {}
    /\ Len(m_entities) = 2
    /\ m_entities[2].m_offset > 0

\* C19: every byte Materialize writes into the argument struct lies in the
\* slot of the entity being materialized, offset <= k < offset + size;
\* bytes outside all slots are not written.
C19_WritesInsideSlots ==
    (lastOp.op = "Materialize" /\ ~crashed)
       => \A p \in lastOp.bytes :
             /\ p[1] \in 1..Len(m_entities)
             /\ m_entities[p[1]].m_offset <= p[2]
             /\ p[2] < m_entities[p[1]].m_offset + m_entities[p[1]].m_size

\* C19 happens: a register narrower than its successor's alignment and the
\* entity behind it were materialized, and the padding between them was
\* not written
C19_Witness ==
    /\ lastOp.op = "Materialize" /\ ~crashed
    /\ lastOp.slotw = {1, 2}
    /\ m_entities[1].m_offset + m_entities[1].m_size < m_entities[2].m_offset
    /\ << 1, m_entities[1].m_offset + m_entities[1].m_size - 1 >>
          \in lastOp.bytes
    /\ << 2, m_entities[2].m_offset >> \in lastOp.bytes

\* C20: over any sequence of Dematerialize and Wipe calls, runs in which a
\* memory-map call reports failure included, Free is called at most once
\* on a temporary region.
C20_NoDoubleFree == lastOp.refreed = {}

(* ------------------------ properties: entities ------------------------ *)

\* entity i's call was made during the step and no collaborator call of
\* it was told to fail
Ran(i) == i <= Len(lastOp'.visited) /\ lastOp'.failAt # i /\ ~crashed'

\* C21: when Dematerialize reaches an EntityVariable that holds a
\* temporary and no collaborator fails, the variable's value becomes the
\* bytes the temporary held, the temporary is freed and the entity's
\* m_temporary_allocation is cleared.
C21_LocalRoundTrip ==
    [][\A i \in 1..Len(m_entities) :
          (/\ lastOp'.op = "Dematerialize" /\ Ran(i)
           /\ m_entities[i].kind = "variable"
           /\ m_entities[i].m_temporary_allocation # LLDB_INVALID_ADDRESS)
             => LET t == m_entities[i].m_temporary_allocation
                IN  /\ lastOp'.entErr[i] = "ok"
                    /\ m_entities'[i].value = mem[t]
                    /\ t \in SeqToSet(lastOp'.frees)
                    /\ region'[t] = "free"
                    /\ m_entities'[i].m_temporary_allocation =
                          LLDB_INVALID_ADDRESS]_vars

\* C21 happens: the expression changed a spilled variable's temporary and
\* Dematerialize copied the new value back
C21_Witness ==
    /\ lastOp.op = "Dematerialize" /\ ~crashed /\ lastOp.err = "ok"
    /\ \E i \in lastOp.wrote :
          /\ m_entities[i].kind = "variable"
          /\ m_entities[i].value \notin InitialValues
          /\ m_entities[i].m_temporary_allocation = LLDB_INVALID_ADDRESS
    /\ lastOp.frees # << >>

\* C22: with a frame, Materialize copies a register's value into its slot
\* and Dematerialize writes what the slot then holds to the register:
\* the old value if the slot was left alone, V if V was stored there.
C22_RegisterRoundTrip ==
    [][\A i \in 1..Len(m_entities) :
          (/\ m_entities[i].kind = "register" /\ Ran(i) /\ frameAlive)
             => /\ lastOp'.op = "Materialize"
                   => /\ lastOp'.entErr[i] = "ok"
                      /\ m_entities'[i].slot = m_entities[i].value
                      /\ m_entities'[i].value = m_entities[i].value
                /\ lastOp'.op = "Dematerialize"
                   => /\ lastOp'.entErr[i] = "ok"
                      /\ m_entities'[i].value = m_entities[i].slot
                      /\ m_entities'[i].slot = m_entities[i].slot]_vars

\* C22 happens: the expression stored a new value into a register's slot
\* and Dematerialize wrote it to the register
C22_Witness ==
    /\ lastOp.op = "Dematerialize" /\ ~crashed
    /\ \E i \in lastOp.wrote :
          /\ m_entities[i].kind = "register"
          /\ m_entities[i].value \in Values \ InitialValues
          /\ m_entities[i].value = m_entities[i].slot

\* entity i is a persistent variable that holds a region it allocated
\* and is to give back: NeedsAllocation set, KeepInTarget clear
HoldsAllocation(i) ==
    LET e == m_entities[i]
    IN  /\ e.kind = "persistent"
        /\ EVNeedsAllocation \in e.m_flags /\ EVKeepInTarget \notin e.m_flags
        /\ e.m_live_sp \in Heap
        /\ region[e.m_live_sp] = "live" /\ owner[e.m_live_sp].i = i

\* C23: once the Dematerialize paired with a successful Materialize has
\* returned, no persistent variable with NeedsAllocation set and
\* KeepInTarget clear still holds the region it allocated, whatever the
\* other entities of the list did.
C23_PersistentNoLeak ==
    (lastOp.op = "Dematerialize" /\ lastOp.wasValid /\ ~crashed)
       => \A i \in 1..Len(m_entities) : ~HoldsAllocation(i)

\* the step is a Dematerialize that reaches persistent variable i, a
\* program reference without a live location whose slot holds an address
\* inside the frame range of the call, and reads that address
FrameReference(i) ==
    /\ lastOp'.op = "Dematerialize" /\ ~crashed'
    /\ i <= Len(lastOp'.visited)
    /\ ~(lastOp'.failAt = i /\ lastOp'.mode = "read")
    /\ m_entities[i].kind = "persistent"
    /\ EVIsProgramReference \in m_entities[i].m_flags
    /\ m_entities[i].m_live_sp = NULL_SP
    /\ lastOp'.top # LLDB_INVALID_ADDRESS
    /\ lastOp'.bottom # LLDB_INVALID_ADDRESS
    /\ m_entities[i].slot >= lastOp'.bottom
    /\ m_entities[i].slot <= lastOp'.top

\* C24: for a persistent variable that is a program reference without a
\* live location and whose slot address lies in [frame_bottom, frame_top],
\* the flags after Dematerialize returns have IsLLDBAllocated,
\* NeedsAllocation and NeedsFreezeDry set and IsProgramReference cleared.
C24_FrameReferenceFlags ==
    [][\A i \in 1..Len(m_entities) :
          FrameReference(i)
             => /\ {EVIsLLDBAllocated, EVNeedsAllocation, EVNeedsFreezeDry}
                      \subseteq m_entities'[i].m_flags
                /\ EVIsProgramReference \notin m_entities'[i].m_flags]_vars

\* C24 as amended: IsLLDBAllocated and NeedsAllocation are set and
\* IsProgramReference is cleared; NeedsFreezeDry, set with them, is cleared
\* again by the copy of the value back to the host and so is left set
\* only when that copy fails.
C24_FrameReferenceFrozen ==
    [][\A i \in 1..Len(m_entities) :
          FrameReference(i)
             => /\ {EVIsLLDBAllocated, EVNeedsAllocation}
                      \subseteq m_entities'[i].m_flags
                /\ EVIsProgramReference \notin m_entities'[i].m_flags
                /\ EVNeedsFreezeDry \in m_entities'[i].m_flags
                      <=> (lastOp'.failAt = i /\ lastOp'.mode = "readmem")
                /\ m_entities'[i].m_live_sp = m_entities[i].slot]_vars

\* C24 happens: a program reference into the expression's frame was
\* dematerialized and freeze-dried
C24_Witness ==
    /\ lastOp.op = "Dematerialize" /\ ~crashed
    /\ lastOp.top # LLDB_INVALID_ADDRESS
    /\ \E i \in lastOp.wrote :
          /\ m_entities[i].kind = "persistent"
          /\ m_entities[i].m_live_sp = StackAddress
          /\ m_entities[i].m_flags = {EVIsLLDBAllocated, EVNeedsAllocation}

\* during the step an entity ahead of i freed region a, so that it reads
\* as 0 when entity i's Dematerialize gets to it
FreedBefore(i, a) ==
    \E j \in 1..(i - 1) :
       /\ << j, a >> \in lastOp'.pfree \/ m_entities[j].m_temporary_allocation = a
       /\ a \in SeqToSet(lastOp'.frees)
       /\ ~(lastOp'.failAt = j /\ lastOp'.mode = "free")

\* C25: a successful result Dematerialize yields a new persistent variable
\* whose bytes are those at the address read from the slot; without
\* keep_in_memory and with a temporary the record is marked NeedsAllocation
\* and the temporary is freed, otherwise it is marked IsLLDBAllocated and
\* nothing is freed; m_temporary_allocation is cleared either way.
C25_ResultPromotion ==
    [][\A i \in 1..Len(m_entities) :
          (/\ lastOp'.op = "Dematerialize" /\ ~crashed'
           /\ i <= Len(lastOp'.visited) /\ i = m_result_entity
           /\ lastOp'.entErr[i] = "ok")
             => LET e == m_entities[i]
                    t == e.m_temporary_allocation
                    release == ~e.m_keep_in_memory /\ t # LLDB_INVALID_ADDRESS
                    res == lastOp'.result
                IN  /\ res.made /\ res.live = e.slot
                    /\ res.value = IF e.slot \in Heap /\ ~FreedBefore(i, e.slot)
                                   THEN mem[e.slot] ELSE 0
                    /\ release => /\ res.flags = {EVNeedsAllocation}
                                  /\ t \in SeqToSet(lastOp'.frees)
                                  /\ region'[t] # "live"
                    /\ ~release => /\ res.flags = {EVIsLLDBAllocated}
                                   /\ t \notin SeqToSet(lastOp'.frees)
                                   /\ t \in Heap => region'[t] = region[t]
                    /\ m_entities'[i].m_temporary_allocation =
                          LLDB_INVALID_ADDRESS]_vars

\* C25 happens: the expression stored the result into the temporary and
\* Dematerialize made a persistent variable of it and freed the temporary
C25_Witness ==
    /\ lastOp.op = "Dematerialize" /\ ~crashed /\ lastOp.err = "ok"
    /\ lastOp.result.made /\ lastOp.result.value = MaxVal
    /\ lastOp.result.flags = {EVNeedsAllocation}
    /\ lastOp.result.live \in SeqToSet(lastOp.frees)

\* what an entity holds on the host side: the variable's or register's
\* value, the persistent record's bytes, flags and live location
HostSide(e) == << e.value, e.m_flags, e.m_live_sp >>

\* C26: a Wipe on a valid Dematerializer copies nothing back: every
\* variable's value, every register and every persistent record's bytes
\* and flags stay as they were, and the temporaries of EntityVariables and
\* of EntityResultVariables without keep_in_memory are freed.
C26_WipeNoWriteBack ==
    [][(lastOp'.op = "Wipe" /\ lastOp'.wasValid /\ ~crashed')
          => /\ Len(m_entities') = Len(m_entities)
             /\ \A i \in 1..Len(m_entities) :
                   HostSide(m_entities'[i]) = HostSide(m_entities[i])
             /\ lastOp'.wrote = {} /\ ~lastOp'.result.made
             /\ Temporaries(m_entities) \subseteq SeqToSet(lastOp'.frees)
             /\ Temporaries(m_entities') = {}]_vars

\* C26 happens: a Wipe freed a temporary while a register's slot held a
\* value the expression had stored, and the register kept its own
C26_Witness ==
    /\ lastOp.op = "Wipe" /\ lastOp.wasValid /\ ~crashed
    /\ lastOp.frees # << >>
    /\ \E i \in 1..Len(m_entities) :
          /\ m_entities[i].kind = "register"
          /\ m_entities[i].slot \in Values
          /\ m_entities[i].slot # m_entities[i].value

\* C27: a persistent entity calls Free only with KeepInTarget clear and
\* only at the address of a region it allocated itself: no Free of a
\* persistent entity is at any other address, such as one read from the
\* slot of a program reference.
C27_FreesOwnAllocation ==
    /\ lastOp.foreign = {}
    /\ \A p \in lastOp.pfree :
          p[1] \in 1..Len(m_entities)
             => EVKeepInTarget \notin m_entities[p[1]].m_flags

\* the condition EntityPersistentVariable::Materialize tests once the
\* allocation step is over
HasLocation(e) ==
    \/ EVIsProgramReference \in e.m_flags /\ e.m_live_sp # NULL_SP
    \/ EVIsLLDBAllocated \in e.m_flags

\* C28: a persistent entity's Materialize, once the allocation step is
\* over and with the pointer write succeeding, succeeds exactly when
\* (IsProgramReference and a live location exists) or IsLLDBAllocated
\* holds, and the slot then holds the live address; otherwise it fails
\* with NotMaterialized and the slot is not written.
C28_MaterializeExactly ==
    [][lastOp'.op = "Materialize"
          => \A i \in 1..Len(lastOp'.visited) :
                (/\ m_entities[i].kind = "persistent"
                 /\ lastOp'.failAt # i
                 /\ crashed' \/ lastOp'.entErr[i] # "AllocationFailed")
                   => /\ ~crashed'
                      /\ IF HasLocation(m_entities'[i])
                         THEN /\ lastOp'.entErr[i] = "ok"
                              /\ i \in lastOp'.slotw
                              /\ m_entities'[i].slot = m_entities'[i].m_live_sp
                         ELSE /\ lastOp'.entErr[i] = "NotMaterialized"
                              /\ i \notin lastOp'.slotw]_vars

\* a persistent record that stays in the target
KeptRecord(e) == e.kind = "persistent" /\ EVKeepInTarget \in e.m_flags

\* C29: a KeepInTarget record is allocated at most once: the Materialize
\* that gives it a live location allocates it and clears NeedsAllocation;
\* from then on its live address stays the same and stays allocated, no
\* other region is ever allocated for it, and no call frees it.
C29_KeptAllocatedOnce ==
    [][~crashed'
          => \A i \in 1..Len(m_entities) :
                KeptRecord(m_entities[i])
                   => /\ { a \in Heap : region'[a] # "free" /\ owner'[a].i = i }
                            \subseteq {m_entities'[i].m_live_sp}
                      /\ m_entities[i].m_live_sp # NULL_SP
                            => /\ m_entities'[i].m_live_sp = m_entities[i].m_live_sp
                               /\ region'[m_entities[i].m_live_sp] = "live"
                               /\ EVNeedsAllocation \notin m_entities'[i].m_flags
                      /\ (/\ m_entities[i].m_live_sp = NULL_SP
                          /\ m_entities'[i].m_live_sp # NULL_SP)
                            => /\ lastOp'.op = "Materialize"
                               /\ m_entities'[i].m_live_sp
                                     \in SeqToSet(lastOp'.mallocs)
                               /\ EVNeedsAllocation \notin m_entities'[i].m_flags]_vars

\* C29 happens: a later Materialize returned a Dematerializer without
\* allocating anything, the slot of a KeepInTarget record holding the
\* address of the region an earlier Dematerialize copied its bytes from
C29_Witness ==
    /\ lastOp.op = "Materialize" /\ lastOp.ret # NoHandle
    /\ lastOp.mallocs = << >>
    /\ \E i \in 1..Len(lastOp.visited) :
          /\ KeptRecord(m_entities[i])
          /\ m_entities[i].value # 0
          /\ m_entities[i].m_live_sp \in Heap
          /\ region[m_entities[i].m_live_sp] = "live"
          /\ m_entities[i].slot = m_entities[i].m_live_sp

\* a persistent record marked IsLLDBAllocated that has no live location
\* and is not to be given one
AbsentLive(e) ==
    /\ e.kind = "persistent"
    /\ e.m_flags = {EVIsLLDBAllocated}
    /\ e.m_live_sp = NULL_SP

\* C30: a Materialize or Dematerialize that reaches a persistent record
\* with IsLLDBAllocated set, NeedsAllocation clear and no live location
\* reports an error for it and does not read through the missing live
\* location.
C30_AbsentLiveRejected ==
    [][lastOp'.op \in {"Materialize", "Dematerialize"}
          => \A i \in 1..Len(lastOp'.visited) :
                AbsentLive(m_entities[i])
                   => /\ ~crashed'
                      /\ ~lastOp'.usedNull
                      /\ lastOp'.entErr[i] # "ok"]_vars

\* an EntityVariable the expression reaches in place: a reference, or a
\* variable whose AddressOf succeeds
InPlace(e) == e.kind = "variable" /\ (e.m_is_reference \/ e.addressable)

\* C31: an EntityVariable holds a temporary only if it is not a reference
\* and has no address. Materialize of a reference or of an addressable
\* variable calls no Malloc and writes the referent's (the variable's)
\* address into the slot, and its Dematerialize changes nothing.
C31_TemporaryOnlyWhenSpilled ==
    [][/\ ~crashed'
          => \A i \in 1..Len(m_entities') :
                m_entities'[i].m_temporary_allocation # LLDB_INVALID_ADDRESS
                   => ~InPlace(m_entities'[i])
       /\ (lastOp'.op = "Materialize" /\ ~crashed')
          => /\ Len(lastOp'.mallocs) <=
                   Cardinality({ j \in SeqToSet(lastOp'.visited) :
                                   ~InPlace(m_entities[j]) })
             /\ \A i \in SeqToSet(lastOp'.visited) :
                   (InPlace(m_entities[i]) /\ lastOp'.failAt # i)
                      => /\ lastOp'.entErr[i] = "ok"
                         /\ i \in lastOp'.slotw
                         /\ m_entities'[i].slot = VariableAddress
       /\ (lastOp'.op = "Dematerialize" /\ ~crashed')
          => \A i \in SeqToSet(lastOp'.visited) :
                InPlace(m_entities[i])
                   => /\ m_entities'[i] = m_entities[i]
                      /\ i \notin lastOp'.wrote
                      /\ lastOp'.entErr[i] = "ok"]_vars

\* C31 happens: a Dematerialize went through a reference or addressable
\* variable whose slot holds the address Materialize wrote
C31_Witness ==
    /\ lastOp.op = "Dematerialize" /\ lastOp.wasValid /\ ~crashed
    /\ \E i \in SeqToSet(lastOp.visited) :
          /\ InPlace(m_entities[i])
          /\ m_entities[i].slot = VariableAddress

Allocates(e) ==
    \/ e.kind = "persistent" /\ EVNeedsAllocation \in e.m_flags
    \/ e.kind = "variable" /\ ~InPlace(e)
           /\ e.m_temporary_allocation = LLDB_INVALID_ADDRESS
    \/ e.kind = "result" /\ ~e.m_is_program_reference
           /\ e.m_temporary_allocation = LLDB_INVALID_ADDRESS

\* C33: Materialize of an EntityResultVariable that is a program reference
\* calls no Malloc and leaves the slot alone, and the Dematerialize that
\* follows takes the address the slot then holds; otherwise Materialize
\* allocates one region and writes its address into the slot, or, when a
\* temporary is already recorded, fails with DoubleAllocation without
\* allocating.
C33_ResultMaterialize ==
    [][/\ (lastOp'.op = "Materialize" /\ ~crashed')
          => /\ Len(lastOp'.mallocs) <=
                   Cardinality({ j \in SeqToSet(lastOp'.visited) :
                                   Allocates(m_entities[j]) })
             /\ \A i \in SeqToSet(lastOp'.visited) :
                   (/\ m_entities[i].kind = "result"
                    /\ lastOp'.failAt # i
                    /\ lastOp'.entErr[i] # "AllocationFailed")
                      => IF m_entities[i].m_is_program_reference
                         THEN /\ lastOp'.entErr[i] = "ok"
                              /\ i \notin lastOp'.slotw
                              /\ m_entities'[i].slot = m_entities[i].slot
                         ELSE IF m_entities[i].m_temporary_allocation
                                    # LLDB_INVALID_ADDRESS
                         THEN /\ lastOp'.entErr[i] = "DoubleAllocation"
                              /\ i \notin lastOp'.slotw
                         ELSE /\ lastOp'.entErr[i] = "ok"
                              /\ i \in lastOp'.slotw
                              /\ m_entities'[i].slot \in SeqToSet(lastOp'.mallocs)
       /\ (lastOp'.op = "Dematerialize" /\ ~crashed')
          => \A i \in SeqToSet(lastOp'.visited) :
                (/\ m_entities[i].kind = "result"
                 /\ m_entities[i].m_is_program_reference
                 /\ i = m_result_entity
                 /\ lastOp'.failAt # i)
                   => /\ lastOp'.entErr[i] = "ok"
                      /\ lastOp'.result.made
                      /\ lastOp'.result.live = m_entities[i].slot
                      /\ m_entities[i].m_temporary_allocation
                            = LLDB_INVALID_ADDRESS]_vars

\* C33 happens: the result is a program reference, Materialize left its
\* slot alone, the expression stored an address of the program there, and
\* Dematerialize made the result variable at that address
C33_Witness ==
    /\ lastOp.op = "Dematerialize" /\ lastOp.wasValid /\ ~crashed
    /\ lastOp.result.made
    /\ lastOp.result.live \in ProgramAddresses
    /\ m_result_entity \in SeqToSet(lastOp.visited)
    /\ m_entities[m_result_entity].m_is_program_reference

\* the EntityResultVariables in the list
ResultEntities ==
    { i \in 1..Len(m_entities) : m_entities[i].kind = "result" }

\* C34 as stated: whatever Add* calls were made, AddResultVariable more
\* than once included, no entity's Dematerialize reports WrongEntry and
\* Dematerialize does not return it.
C34_NeverWrongEntry ==
    lastOp.op = "Dematerialize"
       => /\ lastOp.err # "WrongEntry"
          /\ "WrongEntry" \notin SeqToSet(lastOp.entErr)

\* C34 amended: m_result_entity is the EntityResultVariable added last;
\* Dematerialize calls the specialised form on it and the form every
\* entity has on all others, so WrongEntry is reported exactly for an
\* EntityResultVariable added before another one, and never when
\* AddResultVariable was called at most once.
C34_OnlyLastResultSpecialised ==
    [][/\ ~crashed'
          => m_result_entity' = IF ResultEntities' = {} THEN NoEntity
                                ELSE Max(ResultEntities')
       /\ (lastOp'.op = "Dematerialize" /\ ~crashed')
          => /\ \A i \in SeqToSet(lastOp'.visited) :
                   (lastOp'.entErr[i] = "WrongEntry")
                      <=> (i \in ResultEntities /\ i # m_result_entity)
             /\ Cardinality(ResultEntities) <= 1
                   => lastOp'.err # "WrongEntry"
             /\ lastOp'.result.made
                   => m_result_entity \in SeqToSet(lastOp'.visited)]_vars

\* C34 happens: with one EntityResultVariable behind another entity,
\* Dematerialize went through both and made the result variable
C34_Witness ==
    /\ lastOp.op = "Dematerialize" /\ lastOp.wasValid /\ ~crashed
    /\ lastOp.err = "ok"
    /\ Len(lastOp.visited) = 2
    /\ ResultEntities = {2}
    /\ lastOp.result.made

\* C35: without a stack frame an EntityRegister reports NoFrame, whatever
\* else would have failed: its Materialize writes nothing into the slot,
\* and its Dematerialize gets past no read of the slot and writes no
\* register.
C35_RegisterNeedsFrame ==
    [][(/\ lastOp'.op \in {"Materialize", "Dematerialize"}
        /\ ~crashed' /\ ~frameAlive)
          => \A i \in SeqToSet(lastOp'.visited) :
                m_entities[i].kind = "register"
                   => /\ lastOp'.entErr[i] = "NoFrame"
                      /\ i \notin lastOp'.slotw
                      /\ i \notin lastOp'.wrote
                      /\ m_entities'[i].slot = m_entities[i].slot
                      /\ m_entities'[i].value = m_entities[i].value]_vars

\* C35 happens: the frame a register was materialized under is gone and
\* Dematerialize reported NoFrame for the register
C35_Witness ==
    /\ lastOp.op = "Dematerialize" /\ lastOp.wasValid /\ ~crashed
    /\ ~frameAlive
    /\ \E i \in SeqToSet(lastOp.visited) :
          /\ m_entities[i].kind = "register"
          /\ lastOp.entErr[i] = "NoFrame"
          /\ m_entities[i].slot = m_entities[i].value

\* C36: a Materialize rejected because a Dematerializer is outstanding or
\* because there is no execution scope calls no entity's Materialize: it
\* makes no Malloc, writes no slot, and the error it returns is the
\* rejection, not one an entity raised.
C36_RejectedMaterializeIdle ==
    (lastOp.op = "Materialize" /\ (lastOp.already \/ lastOp.noScope))
       => /\ lastOp.visited = << >>
          /\ lastOp.mallocs = << >>
          /\ lastOp.slotw = {}
          /\ lastOp.err \in {"AlreadyMaterialized", "NoExecutionScope"}

\* C37: Dematerialize goes through the entities its Materialize went
\* through and no others, so no register is overwritten from a slot that
\* nothing ever wrote (the slot of an entity added after Materialize).
C37_NoRegisterFromUnwrittenSlot ==
    lastOp.op = "Dematerialize"
       => \A i \in lastOp.wrote :
             (i <= Len(m_entities) /\ m_entities[i].kind = "register")
                => m_entities[i].value # Uninitialized

\* the result entity holds a temporary its Dematerialize is to free
ReleasesTemporary(i) ==
    /\ i = m_result_entity
    /\ ~m_entities[i].m_keep_in_memory
    /\ m_entities[i].m_temporary_allocation # LLDB_INVALID_ADDRESS
    /\ m_entities[i].slot = m_entities[i].m_temporary_allocation

\* C38: the result's Dematerialize copies the bytes out of the inferior
\* before it frees the temporary, and frees it only after the copy has
\* succeeded: the record holds the bytes the region held, and when the
\* copy fails the entity issues no Free and the Wipe that ends the call
\* is what releases the region.
C38_CopyBeforeFree ==
    [][(lastOp'.op = "Dematerialize" /\ ~crashed')
          => \A i \in SeqToSet(lastOp'.visited) :
                ReleasesTemporary(i)
                   => LET t == m_entities[i].m_temporary_allocation
                      IN  IF lastOp'.entErr[i] = "ok"
                          THEN /\ lastOp'.result.made
                               /\ ~FreedBefore(i, t)
                                     => lastOp'.result.value = mem[t]
                               /\ lastOp'.rfree = {<< i, t >>}
                          ELSE /\ ~lastOp'.result.made
                               /\ lastOp'.rfree = {}
                               /\ Len(SelectSeq(lastOp'.frees,
                                                LAMBDA a : a = t)) = 1
                               /\ m_entities'[i].m_temporary_allocation
                                     = LLDB_INVALID_ADDRESS]_vars

\* C38 happens: the result held a temporary, the copy out of it failed
\* after the record was created, and the Wipe released the region
C38_Witness ==
    /\ lastOp.op = "Dematerialize" /\ lastOp.wasValid /\ ~crashed
    /\ lastOp.failAt = m_result_entity /\ lastOp.mode = "readmem"
    /\ lastOp.err = "ReadFailed"
    /\ lastOp.rfree = {}
    /\ lastOp.frees # << >>
    /\ lastOp.created = 1

\* C39: a Dematerialize that returns an error hands no result variable to
\* the caller and has created no persistent variable in the target's
\* store.
C39_NoResultOnError ==
    (lastOp.op = "Dematerialize" /\ lastOp.err # "ok")
       => /\ ~lastOp.result.made
          /\ lastOp.created = 0

====
